---------------------------- MODULE FilesTab_proofs ----------------------------
(***************************************************************************)
(* The file browser for any number of files, texts, requests in flight and *)
(* files opened: no text lands in another file than its own, no spinner    *)
(* outlives its request, no save aims at a file that cannot be edited, and *)
(* a user who waits for each request loses no keystroke.                   *)
(*                                                                         *)
(* NoCrossWrite speaks of the disk alone.  What makes it inductive is that *)
(* every place a text waits in carries the path it belongs to: the file on *)
(* screen and the one the next render shows, the mounted editor, the       *)
(* requests with the closure they were sent from, and latestTextRef as     *)
(* long as the next render enables the Save button.  All of that is under  *)
(* Prompt (Own); the rest needs no hypothesis.  KeptInv adds what is true  *)
(* until the first action under a request: that request is the only one,   *)
(* and unsaved text is the editor's.                                       *)
(***************************************************************************)
EXTENDS FilesTab, TLAPS

Screens == [file : OpenFiles \cup {None}, dirty : BOOLEAN, saving : BOOLEAN]

\* Text x belongs to file p, unless the user may overtake a render.
Own(x, p) == Prompt => x.of = p

CallOK(c) ==
  /\ c \in Call
  /\ Own(c.text, c.path)
  /\ c.got # None => Own(c.got, c.path)
  /\ c.op = "read" <=> c.then = "open"
  /\ c.then = "save" => c.op = "write" /\ c.file \in OpenFiles /\ c.file.path = c.path
  /\ c.then = "save" /\ c.live => latest \in Contents
FileOK(f) == f \in OpenFiles /\ Own(f.text, f.path)
EditorOK(e, f) ==
  /\ f # None /\ FileOK(f) /\ e \in Editors /\ e.key = Key(f)
  /\ Own(e.doc, f.path) /\ Own(e.initial, f.path)

DiskInv == /\ disk \in [Paths -> Contents \cup {None}]
           /\ \A p \in Paths : disk[p] # None => Own(disk[p], p)
CallInv == /\ calls \in [Slots -> Call \cup {None}]
           /\ \A s \in InFlight : CallOK(calls[s])
NextOK == /\ next \in Screens
          /\ next.file # None => FileOK(next.file) /\ latest \in Contents
          /\ next.dirty /\ next.file # None => Own(latest, next.file.path)
PaneOK == /\ file # None => FileOK(file) /\ latest \in Contents
          /\ editor # None => EditorOK(editor, file)
TabInv == /\ gen \in Nat
          /\ dialog \in [pending : Paths \cup {None}, newFile : BOOLEAN]
          /\ NextOK /\ PaneOK
Inv == DiskInv /\ CallInv /\ TabInv

-----------------------------------------------------------------------------
\* A text of a file is of that file.
LEMMA TextOf ==
  ASSUME NEW p \in Paths, NEW v \in Values
  PROVE  Text(p, v) \in Contents /\ Text(p, v).of = p
BY DEF Text, Contents

LEMMA DecodedOf ==
  ASSUME NEW b \in Contents
  PROVE  Decoded(b) \in Contents /\ Decoded(b).of = b.of
BY TextOf, FilesAssumption DEF Decoded, Contents

\* A request that is put in or taken out of a slot leaves the others.
LEMMA SlotSet ==
  ASSUME CallInv, NEW t, NEW c, c # None => CallOK(c), calls' = [calls EXCEPT ![t] = c],
         latest \in Contents => latest' \in Contents
  PROVE  CallInv'
<1>1. c \in Call \cup {None}
  BY DEF CallOK
<1>2. calls' \in [Slots -> Call \cup {None}]
  BY Zenon, <1>1 DEF CallInv
<1>3. \A s \in Slots : calls'[s] = calls[s] \/ calls'[s] = c
  BY DEF CallInv
<1>4. \A s \in Slots : calls'[s] # None => CallOK(calls'[s])
  BY <1>3 DEF CallInv, InFlight
<1> QED
  BY <1>2, <1>4 DEF CallInv, InFlight, CallOK

LEMMA SameCalls ==
  ASSUME CallInv, UNCHANGED calls, latest \in Contents => latest' \in Contents
  PROVE  CallInv'
BY DEF CallInv, InFlight, CallOK

LEMMA SendOK ==
  ASSUME CallInv, NEW c, CallOK(c), Send(c), UNCHANGED latest
  PROVE  CallInv'
BY Zenon, SlotSet DEF Send

LEMMA ReadOK ==
  ASSUME NEW p \in Paths, NEW b \in BOOLEAN
  PROVE  CallOK(readGuestFile(p, b))
<1>1. Text(p, Empty) \in Contents /\ Own(Text(p, Empty), p)
  BY TextOf, FilesAssumption DEF Own
<1> QED
  BY <1>1 DEF readGuestFile, CallOK, Call

LEMMA WriteOK ==
  ASSUME NEW p \in Paths, NEW x \in Contents, Own(x, p),
         NEW w \in {"save", "create", "upload"}, NEW f \in OpenFiles \cup {None},
         w = "save" => f \in OpenFiles /\ f.path = p /\ latest \in Contents
  PROVE  CallOK(writeGuestFile(p, x, w, f))
BY DEF writeGuestFile, CallOK, Call

\* What React mounts for a file holds the text of that file.
LEMMA RenderedOK ==
  ASSUME NEW e, NEW g, e # None => EditorOK(e, g), NEW f, f # None => FileOK(f), NEW up,
         Rendered(e, f, up) # None
  PROVE  EditorOK(Rendered(e, f, up), f)
<1>1. f # None /\ FileOK(f)
  BY DEF Rendered, Shown, NoEditor
<1>2. CASE e # None /\ e.key = Key(f)
  <2>1. Rendered(e, f, up) = e /\ EditorOK(e, g)
    BY <1>2 DEF Rendered, NoEditor
  <2>2. g.path = f.path
    BY <1>2, <2>1 DEF EditorOK, Key
  <2> QED
    BY <1>1, <1>2, <2>1, <2>2 DEF EditorOK
<1>3. CASE ~(e # None /\ e.key = Key(f))
  <2>1. Rendered(e, f, up) = Mount(f)
    BY <1>3 DEF Rendered, NoEditor
  <2>2. Mount(f) \in Editors /\ Mount(f).key = Key(f) /\ Mount(f).doc = f.text /\ Mount(f).initial = f.text
    BY <1>1 DEF Mount, Editors, FileOK, OpenFiles, Key
  <2> QED
    BY <1>1, <2>1, <2>2 DEF EditorOK, FileOK
<1> QED
  BY <1>2, <1>3

\* A render shows what is set.
LEMMA FlushOK ==
  ASSUME NextOK', NEW e, e # None => EditorOK(e, file), NEW u, Flush(e, u)
  PROVE  PaneOK'
<1>1. file' = next'.file /\ editor' = Rendered(e, next'.file, running')
  BY DEF Flush
<1>2. next'.file # None => FileOK(next'.file) /\ latest' \in Contents
  BY DEF NextOK
<1>3. editor' # None => EditorOK(editor', file')
  BY Zenon, <1>1, <1>2, RenderedOK
<1> QED
  BY <1>1, <1>2, <1>3 DEF PaneOK

\* A step that renders after an update of the flags.
LEMMA FlagsOK ==
  ASSUME TabInv, NEW b \in BOOLEAN, NEW c \in BOOLEAN, b => next.dirty,
         next' = [next EXCEPT !.dirty = b, !.saving = c], UNCHANGED <<latest, gen>>,
         dialog' \in [pending : Paths \cup {None}, newFile : BOOLEAN],
         NEW u, Flush(editor, u)
  PROVE  TabInv'
<1>1. next' \in Screens /\ next'.file = next.file /\ next'.dirty = b
  BY DEF TabInv, NextOK, Screens
<1>2. NextOK'
  BY <1>1 DEF TabInv, NextOK
<1>3. PaneOK'
  BY <1>2, FlushOK DEF TabInv, PaneOK
<1> QED
  BY <1>2, <1>3 DEF TabInv

LEMMA SameOK ==
  ASSUME TabInv, UNCHANGED <<next, latest, gen>>,
         dialog' \in [pending : Paths \cup {None}, newFile : BOOLEAN],
         NEW u, Flush(editor, u)
  PROVE  TabInv'
<1>1. NextOK'
  BY DEF TabInv, NextOK
<1>2. PaneOK'
  BY <1>1, FlushOK DEF TabInv, PaneOK
<1> QED
  BY <1>1, <1>2 DEF TabInv

-----------------------------------------------------------------------------
\* The user's actions that send a request or change the dialogs.
LEMMA StartOpenInv ==
  ASSUME Inv, NEW p \in Paths, NEW b \in BOOLEAN, StartOpen(p, b),
         UNCHANGED <<disk, latest, gen>>, NEW u, Flush(editor, u),
         dialog' \in [pending : Paths \cup {None}, newFile : BOOLEAN]
  PROVE  Inv'
<1>1. CallInv'
  BY Zenon, ReadOK, SendOK DEF StartOpen, Inv
<1>2. next' = [next EXCEPT !.dirty = FALSE, !.saving = next.saving] /\ next.saving \in BOOLEAN
  BY DEF StartOpen, Inv, TabInv, NextOK, Screens
<1>3. TabInv'
  BY <1>2, FlagsOK DEF Inv
<1>4. DiskInv'
  BY DEF Inv, DiskInv
<1> QED
  BY <1>1, <1>3, <1>4 DEF Inv

LEMMA SaveInv ==
  ASSUME Inv, NEW x \in Contents, file # None => Own(x, file.path), Save(x)
  PROVE  Inv'
<1>1. /\ FileOK(file) /\ file.path \in Paths /\ file \in OpenFiles /\ Own(x, file.path)
      /\ latest \in Contents
  BY DEF Save, NoFile, Inv, TabInv, PaneOK, FileOK, OpenFiles
<1>2. CallOK(writeGuestFile(file.path, x, "save", file))
  BY <1>1, WriteOK
<1>3. CallInv'
  BY <1>2, SendOK DEF Save, Inv
<1>4. /\ next' = [next EXCEPT !.dirty = next.dirty, !.saving = TRUE] /\ next.dirty \in BOOLEAN
      /\ UNCHANGED <<disk, latest, gen, dialog>> /\ Flush(editor, unsaved)
  BY DEF Save, Inv, TabInv, NextOK, Screens
<1>5. dialog' \in [pending : Paths \cup {None}, newFile : BOOLEAN]
  BY <1>4 DEF Inv, TabInv
<1>6. TabInv'
  BY <1>4, <1>5, FlagsOK DEF Inv
<1>7. DiskInv'
  BY <1>4 DEF Inv, DiskInv
<1> QED
  BY <1>3, <1>6, <1>7 DEF Inv

\* The Save button has the text of its file.
LEMMA ToolbarText ==
  ASSUME Inv, ToolbarSave
  PROVE  latest \in Contents /\ Own(latest, file.path)
<1>1. file # None /\ dirty /\ (Prompt => ~Due)
  BY DEF ToolbarSave, NoFile
<1>2. latest \in Contents
  BY <1>1 DEF Inv, TabInv, PaneOK
<1>3. ASSUME Prompt PROVE latest.of = file.path
  <2>1. next.dirty /\ next.file = file
    BY <1>1, <1>3 DEF Due, Screen
  <2> QED
    BY <1>1, <1>3, <2>1 DEF Inv, TabInv, NextOK, Own
<1> QED
  BY <1>2, <1>3 DEF Own

LEMMA TypeInv ==
  ASSUME Inv, NEW v \in Values, Type(v)
  PROVE  Inv'
<1> DEFINE x == Text(file.path, v)
           e == [editor EXCEPT !.doc = x]
           b == (x # editor.initial)
<1>1. /\ editor # None /\ EditorOK(editor, file) /\ FileOK(file) /\ file.path \in Paths
      /\ editor \in Editors
  BY DEF Type, NoEditor, Inv, TabInv, PaneOK, EditorOK, FileOK, OpenFiles
<1>2. x \in Contents /\ x.of = file.path
  BY <1>1, TextOf
<1>3. /\ next' = [next EXCEPT !.dirty = b] /\ latest' = x /\ Flush(e, TRUE)
      /\ UNCHANGED <<disk, dialog, gen, calls>> /\ (Prompt => ~Due)
  BY Zenon DEF Type
<1>4. latest' \in Contents
  BY <1>2, <1>3
<1>5. b \in BOOLEAN
  OBVIOUS
<1> HIDE DEF x, b
<1>6. EditorOK(e, file)
  BY <1>1, <1>2 DEF EditorOK, Editors, Own
<1> HIDE DEF e
<1>7. next' \in Screens /\ next'.file = next.file
  BY <1>3, <1>5 DEF Inv, TabInv, NextOK, Screens
<1>8. Own(latest', next.file.path)
  <2>1. Prompt => next.file = file
    BY <1>3 DEF Due, Screen
  <2> QED
    BY <1>2, <1>3, <2>1 DEF Own
<1>9. NextOK'
  <2>1. next'.file # None => FileOK(next'.file) /\ latest' \in Contents
    BY <1>2, <1>3, <1>7 DEF Inv, TabInv, NextOK
  <2> QED
    BY <1>7, <1>8, <2>1 DEF NextOK
<1>10. PaneOK'
  BY <1>3, <1>6, <1>9, FlushOK
<1>11. TabInv'
  BY <1>3, <1>9, <1>10 DEF Inv, TabInv
<1>12. DiskInv' /\ CallInv'
  BY <1>3, <1>4, SameCalls DEF Inv, DiskInv
<1> QED
  BY <1>11, <1>12 DEF Inv

LEMMA LeaveInv ==
  ASSUME Inv, LeaveTab
  PROVE  Inv'
<1>1. ASSUME NEW s \in Slots
      PROVE  /\ calls'[s] \in Call \cup {None}
             /\ calls'[s] # None => CallOK(calls'[s]) /\ ~calls'[s].live
  <2> DEFINE c == calls[s]
             d == [c EXCEPT !.live = FALSE]
  <2>1. CASE c = None
    BY <2>1 DEF LeaveTab
  <2>2. CASE c # None
    <3>1. calls'[s] = d /\ CallOK(c)
      BY <2>2 DEF LeaveTab, Inv, CallInv, InFlight
    <3>2. /\ d \in Call /\ d.op = c.op /\ d.path = c.path /\ d.text = c.text
          /\ d.then = c.then /\ d.file = c.file /\ d.got = c.got /\ ~d.live
      BY Zenon, <3>1 DEF CallOK, Call
    <3> HIDE DEF c, d
    <3> QED
      BY <3>1, <3>2 DEF CallOK
  <2> QED
    BY <2>1, <2>2
<1>2. CallInv'
  BY <1>1 DEF LeaveTab, CallInv, InFlight, CallOK
<1>3. /\ next' = Blank /\ Flush(NoEditor, FALSE) /\ dialog' = NoDialog
      /\ UNCHANGED <<disk, gen>>
  BY DEF LeaveTab
<1>4. NextOK'
  BY <1>3 DEF Blank, NextOK, Screens, NoFile
<1>5. PaneOK'
  BY <1>3, <1>4, FlushOK DEF NoEditor
<1>6. DiskInv' /\ TabInv'
  BY <1>3, <1>4, <1>5 DEF Inv, DiskInv, TabInv, NoDialog
<1> QED
  BY <1>2, <1>6 DEF Inv

LEMMA UserInv ==
  ASSUME Inv, User
  PROVE  Inv'
<1> DEFINE Dialogs == [pending : Paths \cup {None}, newFile : BOOLEAN]
<1>1. ASSUME NEW p \in Paths, ClickFile(p) PROVE Inv'
  <2>1. UNCHANGED <<disk, latest, gen>> /\ Flush(editor, unsaved)
    BY <1>1 DEF ClickFile
  <2>2. CASE dirty
    <3>1. dialog' \in Dialogs /\ UNCHANGED <<calls, next>>
      BY <1>1, <2>2 DEF ClickFile, Inv, TabInv
    <3>2. TabInv'
      BY <2>1, <3>1, SameOK DEF Inv
    <3> QED
      BY <2>1, <3>1, <3>2, SameCalls DEF Inv, DiskInv
  <2>3. CASE ~dirty
    <3>1. StartOpen(p, FALSE) /\ dialog' \in Dialogs
      BY Zenon, <1>1, <2>3 DEF ClickFile, Inv, TabInv
    <3> QED
      BY <2>1, <3>1, StartOpenInv
  <2> QED
    BY <2>2, <2>3
<1>2. ASSUME NEW p \in Paths, CreateFile(p) PROVE Inv'
  <2>1. Text(p, Empty) \in Contents /\ Own(Text(p, Empty), p)
    BY TextOf, FilesAssumption DEF Own
  <2>2. CallInv'
    BY <1>2, <2>1, WriteOK, SendOK DEF CreateFile, Inv
  <2>3. /\ UNCHANGED <<disk, next, latest, gen>> /\ Flush(editor, unsaved) /\ dialog' \in Dialogs
    BY Zenon, <1>2 DEF CreateFile, Inv, TabInv
  <2>4. TabInv'
    BY <2>3, SameOK DEF Inv
  <2> QED
    BY <2>2, <2>3, <2>4 DEF Inv, DiskInv
<1>3. ASSUME NEW b \in Uploads, Upload(b) PROVE Inv'
  <2>1. b \in Contents /\ b.of \in Paths /\ Own(b, b.of)
    BY FilesAssumption DEF Own, Contents
  <2>2. CallInv'
    BY <1>3, <2>1, WriteOK, SendOK DEF Upload, ui, Inv
  <2>3. DiskInv' /\ TabInv'
    BY <1>3 DEF Upload, ui, Inv, DiskInv, TabInv, NextOK, PaneOK
  <2> QED
    BY <2>2, <2>3 DEF Inv
<1>4. ASSUME NEW v \in Values, Type(v) PROVE Inv'
  BY <1>4, TypeInv
<1>5. CASE ConfirmDiscard
  <2>1. dialog.pending \in Paths /\ dialog' \in Dialogs
    BY <1>5 DEF ConfirmDiscard, Inv, TabInv
  <2>2. StartOpen(dialog.pending, TRUE) /\ Flush(editor, FALSE) /\ UNCHANGED <<disk, latest, gen>>
    BY <1>5 DEF ConfirmDiscard
  <2> QED
    BY <2>1, <2>2, StartOpenInv
<1>6. CASE CloseDialog \/ NewFileClick
  <2>1. dialog' \in Dialogs
    <3>1. CASE CloseDialog
      BY <3>1 DEF CloseDialog, NoDialog
    <3>2. CASE NewFileClick
      BY Zenon, <3>2 DEF NewFileClick, Inv, TabInv
    <3> QED
      BY <1>6, <3>1, <3>2
  <2>2. UNCHANGED <<disk, next, latest, gen, calls>> /\ Flush(editor, unsaved)
    BY <1>6 DEF CloseDialog, NewFileClick
  <2>3. TabInv'
    BY <2>1, <2>2, SameOK DEF Inv
  <2> QED
    BY <2>2, <2>3, SameCalls DEF Inv, DiskInv
<1>7. CASE RefreshListing
  BY <1>7, SameCalls DEF RefreshListing, ui, Inv, DiskInv, TabInv, NextOK, PaneOK
<1>8. CASE ToolbarSave
  BY <1>8, ToolbarText, SaveInv DEF ToolbarSave
<1>9. CASE ModS
  <2>1. editor.doc \in Contents /\ Own(editor.doc, file.path)
    BY <1>9 DEF ModS, NoEditor, Inv, TabInv, PaneOK, EditorOK, Editors
  <2> QED
    BY <1>9, <2>1, SaveInv DEF ModS
<1>10. CASE LeaveTab
  BY <1>10, LeaveInv
<1> QED
  BY <1>1, <1>2, <1>3, <1>4, <1>5, <1>6, <1>7, <1>8, <1>9, <1>10 DEF User

-----------------------------------------------------------------------------
\* The answers.
LEMMA ServeInv ==
  ASSUME Inv, NEW s \in Slots, Serve(s)
  PROVE  Inv'
<1> DEFINE c == calls[s]
           g == IF c.op = "read" THEN disk[c.path] ELSE None
           d == [c EXCEPT !.at = "done", !.got = g]
<1>1. c # None /\ CallOK(c) /\ c \in Call /\ c.path \in Paths /\ c.text \in Contents
  BY DEF Serve, InFlight, Inv, CallInv, CallOK, Call
<1>2. calls' = [calls EXCEPT ![s] = d] /\ UNCHANGED latest
  BY Zenon DEF Serve, ui
<1>3. g \in Contents \cup {None} /\ (g # None => Own(g, c.path))
  BY <1>1 DEF Inv, DiskInv
<1> HIDE DEF c, g
<1>4. /\ d \in Call /\ d.op = c.op /\ d.path = c.path /\ d.text = c.text
      /\ d.then = c.then /\ d.file = c.file /\ d.got = g /\ d.live = c.live
  BY Zenon, <1>1, <1>3 DEF Call
<1> HIDE DEF d
<1>5. CallOK(d)
  BY <1>1, <1>3, <1>4 DEF CallOK
<1>6. CallInv'
  BY Zenon, <1>2, <1>5, SlotSet DEF Inv
<1>7. DiskInv'
  <2>1. CASE disk' = disk
    BY <2>1 DEF Inv, DiskInv
  <2>2. CASE disk' = [disk EXCEPT ![c.path] = c.text]
    <3>1. Own(c.text, c.path)
      BY <1>1 DEF CallOK
    <3> QED
      BY <1>1, <2>2, <3>1 DEF Inv, DiskInv
  <2> QED
    BY <2>1, <2>2 DEF Serve, c
<1>8. TabInv'
  BY DEF Serve, ui, Inv, TabInv, NextOK, PaneOK
<1> QED
  BY <1>6, <1>7, <1>8 DEF Inv

\* What is not shown yet leaves the pane as it is.
LEMMA UnseenOK ==
  ASSUME TabInv, NextOK', file # None => latest' \in Contents,
         gen' \in Nat, UNCHANGED <<file, editor, dialog>>
  PROVE  TabInv'
BY DEF TabInv, PaneOK, EditorOK, FileOK, Own

LEMMA OpenAnsweredInv ==
  ASSUME Inv, NEW s \in InFlight, OpenAnswered(s)
  PROVE  Inv'
<1> DEFINE c == calls[s]
           f == Opened(c)
<1>1. c.got # None /\ calls' = [calls EXCEPT ![s] = None] /\ UNCHANGED <<disk, file, editor, dialog>>
  BY DEF OpenAnswered
<1>2. DiskInv'
  BY <1>1 DEF Inv, DiskInv
<1>3. c.got \in Contents /\ Own(c.got, c.path) /\ c.path \in Paths /\ gen \in Nat
  BY <1>1 DEF Inv, CallInv, CallOK, Call, TabInv
<1>4. Decoded(c.got) \in Contents /\ Own(Decoded(c.got), c.path)
  BY <1>3, DecodedOf DEF Own
<1>5. f \in OpenFiles /\ f.text = Decoded(c.got) /\ f.path = c.path
  BY <1>3, <1>4 DEF OpenFiles, looksBinary, tooLarge, readOnly, Opened
<1>6. FileOK(f)
  BY <1>4, <1>5 DEF FileOK
<1>7. CASE ~c.live
  <2>1. UNCHANGED <<latest, next, gen>>
    BY <1>7 DEF OpenAnswered
  <2>2. CallInv'
    BY Zenon, <1>1, <2>1, SlotSet DEF Inv
  <2> QED
    BY <1>1, <1>2, <2>1, <2>2 DEF Inv, TabInv, NextOK, PaneOK
<1>8. CASE c.live
  <2>1. latest' = f.text /\ next' = [next EXCEPT !.file = f] /\ gen' = gen + 1
    BY <1>8 DEF OpenAnswered
  <2> HIDE DEF f
  <2>2. next' \in Screens /\ next'.file = f
    BY <1>5, <2>1 DEF Inv, TabInv, NextOK, Screens
  <2>3. NextOK'
    BY <1>4, <1>5, <1>6, <2>1, <2>2 DEF NextOK
  <2>4. latest' \in Contents /\ gen' \in Nat
    BY <1>3, <1>4, <1>5, <2>1
  <2>5. TabInv'
    BY <1>1, <2>3, <2>4, UnseenOK DEF Inv
  <2>6. CallInv'
    BY Zenon, <1>1, <2>4, SlotSet DEF Inv
  <2> QED
    BY <1>2, <2>5, <2>6 DEF Inv
<1> QED
  BY <1>7, <1>8

LEMMA SaveAnsweredInv ==
  ASSUME Inv, NEW s \in InFlight, SaveAnswered(s)
  PROVE  Inv'
<1> DEFINE c == calls[s]
           f == [c.file EXCEPT !.text = c.text]
<1>1. /\ calls' = [calls EXCEPT ![s] = None] /\ c.then = "save"
      /\ UNCHANGED <<disk, dialog, latest, gen, file, editor>>
  BY DEF SaveAnswered
<1>2. CallInv' /\ DiskInv'
  <2>1. CallInv'
    BY Zenon, <1>1, SlotSet DEF Inv
  <2>2. DiskInv'
    BY <1>1 DEF Inv, DiskInv
  <2> QED
    BY <2>1, <2>2
<1>3. /\ c.file \in OpenFiles /\ c.file.path = c.path /\ Own(c.text, c.path)
      /\ c.text \in Contents
  BY <1>1 DEF Inv, CallInv, CallOK, Call
<1>4. CASE ~c.live
  <2>1. UNCHANGED next
    BY <1>4 DEF SaveAnswered
  <2> QED
    BY <1>1, <1>2, <2>1 DEF Inv, TabInv, NextOK, PaneOK
<1>5. CASE c.live
  <2>1. next' = [file |-> f, dirty |-> FALSE, saving |-> FALSE] /\ latest \in Contents
    BY <1>1, <1>5 DEF SaveAnswered, Inv, CallInv, CallOK
  <2> HIDE DEF c
  <2>2. f \in OpenFiles /\ f.path = c.path /\ f.text = c.text
    BY <1>3 DEF OpenFiles
  <2>3. FileOK(f)
    BY <1>3, <2>2 DEF FileOK
  <2> HIDE DEF f
  <2>4. NextOK'
    BY <1>1, <2>1, <2>2, <2>3 DEF NextOK, Screens, FileOK, Own
  <2>5. TabInv'
    BY <1>1, <2>1, <2>4, UnseenOK DEF Inv, TabInv
  <2> QED
    BY <1>2, <2>5 DEF Inv
<1> QED
  BY <1>4, <1>5

LEMMA RefreshInv ==
  ASSUME Inv, NEW s \in InFlight, WriteAnswered(s) \/ ListAnswered(s)
  PROVE  Inv'
<1> DEFINE c == calls[s]
           d == refreshTree(c)
           e == [readGuestFile(c.path, TRUE) EXCEPT !.live = c.live]
<1>1. c # None /\ CallOK(c) /\ c \in Call /\ c.path \in Paths /\ c.live \in BOOLEAN
  BY DEF Inv, CallInv, InFlight, CallOK, Call
<1>2. UNCHANGED <<disk, file, dialog, latest, editor, gen>>
  BY Zenon DEF WriteAnswered, ListAnswered, ui
<1>3. next' = next \/ next' = [next EXCEPT !.dirty = (@ /\ ~c.live)]
  BY Zenon DEF WriteAnswered, ListAnswered, ui
<1> HIDE DEF c
<1>4. next' \in Screens /\ next'.file = next.file /\ (next'.dirty => next.dirty)
  BY <1>1, <1>3 DEF Inv, TabInv, NextOK, Screens
<1>5. DiskInv' /\ TabInv'
  BY <1>2, <1>4 DEF Inv, DiskInv, TabInv, NextOK, PaneOK
<1>6. CASE WriteAnswered(s)
  <2>1. calls' = [calls EXCEPT ![s] = d] /\ c.then \in {"create", "upload"}
    BY <1>6 DEF WriteAnswered, c
  <2>2. d = [c EXCEPT !.op = "list"]
    BY DEF refreshTree
  <2> HIDE DEF d
  <2>3. /\ d \in Call /\ d.op = "list" /\ d.path = c.path /\ d.text = c.text
        /\ d.then = c.then /\ d.file = c.file /\ d.got = c.got
    BY <1>1, <2>2 DEF Call
  <2>4. CallOK(d)
    BY <1>1, <2>1, <2>3 DEF CallOK
  <2>5. CallInv'
    BY Zenon, <1>2, <2>1, <2>4, SlotSet DEF Inv
  <2> QED
    BY <1>5, <2>5 DEF Inv
<1>7. CASE ListAnswered(s)
  <2>1. calls' = [calls EXCEPT ![s] = e] \/ calls' = [calls EXCEPT ![s] = None]
    BY Zenon, <1>7 DEF ListAnswered, c
  <2> DEFINE r == readGuestFile(c.path, TRUE)
  <2>2. CallOK(r)
    BY Zenon, <1>1, ReadOK
  <2> HIDE DEF r
  <2>3. /\ e \in Call /\ e.op = r.op /\ e.path = r.path /\ e.text = r.text
        /\ e.then = r.then /\ e.file = r.file /\ e.got = r.got
    BY Zenon, <1>1, <2>2 DEF CallOK, Call, r
  <2>4. r.then = "open"
    BY DEF r, readGuestFile
  <2> HIDE DEF e
  <2>5. CallOK(e)
    BY <2>2, <2>3, <2>4 DEF CallOK
  <2>6. CallInv'
    BY Zenon, <1>2, <2>1, <2>5, SlotSet DEF Inv
  <2> QED
    BY <1>5, <2>6 DEF Inv
<1> QED
  BY <1>6, <1>7

LEMMA NextInv ==
  ASSUME Inv, [Next]_vars
  PROVE  Inv'
<1>1. CASE User
  BY <1>1, UserInv
<1>2. CASE NotRunning \/ Running \/ Render
  <2>1. UNCHANGED <<disk, next, dialog, latest, gen, calls>> /\ Flush(editor, unsaved)
    BY <1>2 DEF NotRunning, Running, Render
  <2>2. TabInv'
    BY <2>1, SameOK DEF Inv, TabInv
  <2> QED
    BY <2>1, <2>2, SameCalls DEF Inv, DiskInv
<1>3. ASSUME NEW s \in Slots, Serve(s) PROVE Inv'
  BY <1>3, ServeInv
<1>4. ASSUME NEW s \in Slots, Answer(s) PROVE Inv'
  BY <1>4, OpenAnsweredInv, SaveAnsweredInv, RefreshInv DEF Answer
<1>5. ASSUME NEW s \in Slots, CallFails(s) PROVE Inv'
  <2>1. UNCHANGED <<file, dialog, latest, editor, gen>>
    BY <1>5 DEF CallFails
  <2>2. CallInv'
    BY Zenon, <1>5, <2>1, SlotSet DEF CallFails, Inv
  <2>3. next' \in Screens /\ next'.file = next.file /\ next'.dirty = next.dirty
    BY <1>5 DEF CallFails, Inv, TabInv, NextOK, Screens
  <2>4. TabInv'
    BY <2>1, <2>3 DEF Inv, TabInv, NextOK, PaneOK
  <2>5. DiskInv'
    <3> DEFINE q == calls[s].path
    <3>1. CASE disk' = disk
      BY <3>1 DEF Inv, DiskInv
    <3>2. CASE disk' = [disk EXCEPT ![q] = Text(q, Empty)]
      <4>1. q \in Paths
        BY <1>5 DEF CallFails, InFlight, Inv, CallInv, CallOK, Call
      <4>2. Text(q, Empty) \in Contents /\ Own(Text(q, Empty), q)
        BY <4>1, TextOf, FilesAssumption DEF Own
      <4> HIDE DEF q
      <4> QED
        BY <3>2, <4>1, <4>2 DEF Inv, DiskInv
    <3> QED
      BY <1>5, <3>1, <3>2 DEF CallFails
  <2> QED
    BY <2>2, <2>4, <2>5 DEF Inv
<1>6. CASE UNCHANGED vars
  BY <1>6, SameCalls DEF vars, ui, Inv, DiskInv, TabInv, NextOK, PaneOK
<1> QED
  BY <1>1, <1>2, <1>3, <1>4, <1>5, <1>6 DEF Next

LEMMA AlwaysInv == Spec => []Inv
<1>1. Init => Inv
  <2> SUFFICES ASSUME Init PROVE Inv
    OBVIOUS
  <2>1. DiskInv
    BY FilesAssumption DEF Init, DiskInv, Own
  <2>2. CallInv
    BY DEF Init, CallInv, InFlight
  <2>3. TabInv
    BY DEF Init, TabInv, NextOK, PaneOK, Screens, Blank, NoFile, NoEditor, NoDialog
  <2> QED
    BY <2>1, <2>2, <2>3 DEF Inv
<1>2. Inv /\ [Next]_vars => Inv'
  BY NextInv
<1> QED
  BY <1>1, <1>2, PTL DEF Spec

LEMMA OwnCrosses == ASSUME Prompt PROVE Inv => NoCrossWrite
BY DEF Inv, DiskInv, NoCrossWrite, Own

\* However many files, requests and stops of the guest interleave, a save
\* writes no text over another file (openFile, save, the Editor's callbacks),
\* as long as no key and no click on Save comes between an answer and the
\* render of what it set.
THEOREM NoTextCrosses == ASSUME Prompt PROVE Spec => []NoCrossWrite
<1>1. Inv => NoCrossWrite
  BY OwnCrosses
<1> QED
  BY <1>1, AlwaysInv, PTL

-----------------------------------------------------------------------------
\* A request that is sent takes no slot of another.
LEMMA SentKeeps ==
  ASSUME Inv, NEW c, Send(c)
  PROVE  \A s \in InFlight : calls'[s] = calls[s] /\ s \in InFlight'
<1>1. PICK t \in Slots : calls[t] = None /\ calls' = [calls EXCEPT ![t] = c]
  BY Zenon DEF Send, InFlight
<1> QED
  BY <1>1 DEF Inv, CallInv, InFlight

\* One turned on belongs to the request just sent.
LEMMA SentNew ==
  ASSUME Inv, NEW c, c # None, Send(c)
  PROVE  \E s \in InFlight' : calls'[s] = c
<1>1. PICK t \in Slots : calls[t] = None /\ calls' = [calls EXCEPT ![t] = c]
  BY Zenon DEF Send, InFlight
<1> QED
  BY <1>1 DEF Inv, CallInv, InFlight

\* openFile turns the spinner on with the request it sends.
LEMMA StartOpenOwned ==
  ASSUME Inv, SpinnerOwned, NEW p \in Paths, NEW b \in BOOLEAN, StartOpen(p, b),
         next'.saving = next.saving
  PROVE  SpinnerOwned'
<1> DEFINE c == readGuestFile(p, b)
<1>1. c # None /\ c.live = TRUE /\ c.op = "read"
  <2>1. c \in Call
    BY Zenon, ReadOK DEF CallOK
  <2>2. c # None
    BY Zenon, <2>1, NoneAssumption
  <2>3. c.live = TRUE /\ c.op = "read"
    BY DEF readGuestFile
  <2> QED
    BY <2>2, <2>3
<1>2. \E s \in InFlight' : calls'[s] = c
  BY <1>1, SentNew DEF StartOpen
<1>3. \A s \in InFlight : calls'[s] = calls[s] /\ s \in InFlight'
  BY SentKeeps DEF StartOpen
<1> HIDE DEF c
<1> QED
  BY <1>1, <1>2, <1>3 DEF SpinnerOwned

LEMMA SaveOwned ==
  ASSUME Inv, SpinnerOwned, NEW x \in Contents, file # None => Own(x, file.path), Save(x)
  PROVE  SpinnerOwned'
<1> DEFINE c == writeGuestFile(file.path, x, "save", file)
<1>1. /\ FileOK(file) /\ file.path \in Paths /\ file \in OpenFiles /\ Own(x, file.path)
      /\ latest \in Contents
  BY DEF Save, NoFile, Inv, TabInv, PaneOK, FileOK, OpenFiles
<1>2. c \in Call
  BY <1>1, WriteOK DEF CallOK
<1>3. c # None /\ c.live = TRUE /\ c.then = "save"
  BY Zenon, <1>2, NoneAssumption DEF writeGuestFile
<1>4. \E s \in InFlight' : calls'[s] = c
  BY <1>3, SentNew DEF Save
<1>5. \A s \in InFlight : calls'[s] = calls[s] /\ s \in InFlight'
  BY SentKeeps DEF Save
<1>6. busy' = busy
  BY DEF Save
<1> HIDE DEF c
<1> QED
  BY <1>3, <1>4, <1>5, <1>6 DEF SpinnerOwned

LEMMA AnswerOwned ==
  ASSUME Inv, SpinnerOwned, NEW s \in InFlight,
         Serve(s) \/ Answer(s) \/ CallFails(s)
  PROVE  SpinnerOwned'
<1> DEFINE c == calls[s]
<1>1. /\ CallOK(c) /\ c.live \in BOOLEAN /\ c.path \in Paths
      /\ c.op = "read" <=> c.then = "open"
      /\ c.then = "save" => c.op = "write"
  BY DEF Inv, CallInv, CallOK, Call
<1>2. ASSUME NEW x, calls' = [calls EXCEPT ![s] = x]
      PROVE  /\ \A t \in InFlight \ {s} : calls'[t] = calls[t] /\ t \in InFlight'
             /\ x # None => s \in InFlight' /\ calls'[s] = x
  BY <1>2 DEF Inv, CallInv, InFlight
<1>3. CASE Serve(s)
  <2> DEFINE g == IF c.op = "read" THEN disk[c.path] ELSE None
             d == [c EXCEPT !.at = "done", !.got = g]
  <2>1. calls' = [calls EXCEPT ![s] = d] /\ UNCHANGED <<busy, next>>
    BY Zenon, <1>3 DEF Serve, ui
  <2>2. g \in Contents \cup {None}
    BY <1>1 DEF Inv, DiskInv
  <2> HIDE DEF g
  <2>3. d \in Call /\ d.live = c.live /\ d.op = c.op /\ d.then = c.then
    BY Zenon, <1>1, <2>2 DEF CallOK, Call
  <2>4. d # None
    BY <2>3, NoneAssumption
  <2> HIDE DEF d
  <2> QED
    BY Zenon, <1>2, <2>1, <2>3, <2>4 DEF SpinnerOwned
<1>4. CASE OpenAnswered(s)
  <2>1. /\ calls' = [calls EXCEPT ![s] = None] /\ c.op = "read"
        /\ c.live => busy' = FALSE
        /\ ~c.live => busy' = busy
    BY <1>4 DEF OpenAnswered
  <2>5. next'.saving = next.saving
    BY <1>4 DEF OpenAnswered, Inv, TabInv, NextOK, Screens
  <2>2. \A t \in InFlight \ {s} : calls'[t] = calls[t] /\ t \in InFlight'
    BY Zenon, <1>2, <2>1
  <2>3. busy' => \E t \in InFlight' : calls'[t].live /\ calls'[t].op = "read"
    BY Zenon, <1>1, <2>1, <2>2 DEF SpinnerOwned
  <2>4. next'.saving => \E t \in InFlight' : calls'[t].live /\ calls'[t].then = "save"
    BY <1>1, <2>1, <2>2, <2>5 DEF SpinnerOwned
  <2> QED
    BY <2>3, <2>4 DEF SpinnerOwned
<1>5. CASE SaveAnswered(s)
  <2>1. /\ calls' = [calls EXCEPT ![s] = None] /\ busy' = busy /\ c.then = "save"
        /\ c.live => ~next'.saving
        /\ ~c.live => next' = next
    BY <1>5 DEF SaveAnswered
  <2>2. \A t \in InFlight \ {s} : calls'[t] = calls[t] /\ t \in InFlight'
    BY Zenon, <1>2, <2>1
  <2>3. busy' => \E t \in InFlight' : calls'[t].live /\ calls'[t].op = "read"
    BY <1>1, <2>1, <2>2 DEF SpinnerOwned
  <2>4. next'.saving => \E t \in InFlight' : calls'[t].live /\ calls'[t].then = "save"
    BY Zenon, <1>1, <2>1, <2>2 DEF SpinnerOwned
  <2> QED
    BY <2>3, <2>4 DEF SpinnerOwned
<1>6. CASE WriteAnswered(s)
  <2>1. /\ calls' = [calls EXCEPT ![s] = refreshTree(c)] /\ UNCHANGED <<busy, next>>
        /\ c.then \in {"create", "upload"}
    BY <1>6 DEF WriteAnswered, ui
  <2> QED
    BY Zenon, <1>1, <1>2, <2>1 DEF SpinnerOwned
<1>7. CASE ListAnswered(s)
  <2> DEFINE e == [readGuestFile(c.path, TRUE) EXCEPT !.live = c.live]
  <2>1. c.op = "list" /\ next'.saving = next.saving
    BY <1>7 DEF ListAnswered, Inv, TabInv, NextOK, Screens
  <2>2. CASE c.then = "create" /\ c.live
    <3>1. calls' = [calls EXCEPT ![s] = e]
      BY Zenon, <1>7, <2>2 DEF ListAnswered
    <3>2. e.live /\ e.op = "read" /\ e \in Call
      <4>1. readGuestFile(c.path, TRUE) \in Call
        BY Zenon, <1>1, ReadOK DEF CallOK
      <4> QED
        BY Zenon, <1>1, <2>2, <4>1 DEF Call, readGuestFile
    <3>3. e # None
      BY Zenon, <3>2, NoneAssumption
    <3> HIDE DEF e
    <3>4. /\ \A t \in InFlight \ {s} : calls'[t] = calls[t] /\ t \in InFlight'
          /\ s \in InFlight' /\ calls'[s] = e
      BY Zenon, <1>2, <3>1, <3>3
    <3>5. next'.saving => \E t \in InFlight' : calls'[t].live /\ calls'[t].then = "save"
      BY <1>1, <2>1, <3>4 DEF SpinnerOwned
    <3> QED
      BY <3>2, <3>4, <3>5 DEF SpinnerOwned
  <2>3. CASE ~(c.then = "create" /\ c.live)
    <3>1. /\ calls' = [calls EXCEPT ![s] = e] \/ calls' = [calls EXCEPT ![s] = None]
          /\ busy' => busy
      <4>1. CASE c.then = "create"
        BY Zenon, <1>7, <2>3, <4>1 DEF ListAnswered
      <4>2. CASE c.then # "create"
        BY Zenon, <1>7, <4>2 DEF ListAnswered
      <4> QED
        BY Zenon, <4>1, <4>2
    <3>2. \A t \in InFlight \ {s} : calls'[t] = calls[t] /\ t \in InFlight'
      BY Zenon, <1>2, <3>1
    <3> QED
      BY <1>1, <2>1, <3>1, <3>2 DEF SpinnerOwned
  <2> QED
    BY <2>2, <2>3
<1>8. CASE CallFails(s)
  <2>1. /\ calls' = [calls EXCEPT ![s] = None]
        /\ busy' => busy /\ ~(c.live /\ c.then = "open")
    BY Zenon, <1>1, <1>8 DEF CallFails
  <2>2. next'.saving => next.saving /\ ~(c.live /\ c.then = "save")
    BY <1>1, <1>8 DEF CallFails, Inv, TabInv, NextOK, Screens
  <2> QED
    BY Zenon, <1>1, <1>2, <2>1, <2>2 DEF SpinnerOwned
<1> QED
  BY <1>3, <1>4, <1>5, <1>6, <1>7, <1>8 DEF Answer

LEMMA NextOwned ==
  ASSUME Inv, SpinnerOwned, [Next]_vars
  PROVE  SpinnerOwned'
<1>1. CASE UNCHANGED <<calls, busy>> /\ next'.saving = next.saving
  BY <1>1 DEF SpinnerOwned, InFlight
<1>2. ASSUME NEW p, NEW b, StartOpen(p, b) PROVE next'.saving = next.saving
  BY <1>2 DEF StartOpen, Inv, TabInv, NextOK, Screens
<1>3. ASSUME NEW p \in Paths, ClickFile(p) PROVE SpinnerOwned'
  <2>1. UNCHANGED <<calls, busy, next>> \/ StartOpen(p, FALSE)
    BY Zenon, <1>3 DEF ClickFile
  <2> QED
    BY Zenon, <1>1, <1>2, <2>1, StartOpenOwned
<1>4. CASE ConfirmDiscard
  <2>1. dialog.pending \in Paths
    BY <1>4 DEF ConfirmDiscard, Inv, TabInv
  <2> QED
    BY Zenon, <1>2, <1>4, <2>1, StartOpenOwned DEF ConfirmDiscard
<1>5. ASSUME NEW c, Send(c), UNCHANGED <<busy, next>> PROVE SpinnerOwned'
  BY <1>5, SentKeeps DEF SpinnerOwned
<1>6. ASSUME NEW p \in Paths, CreateFile(p) PROVE SpinnerOwned'
  BY <1>5, <1>6 DEF CreateFile
<1>7. ASSUME NEW b \in Uploads, Upload(b) PROVE SpinnerOwned'
  BY <1>5, <1>7 DEF Upload, ui
<1>8. CASE ToolbarSave
  BY <1>8, ToolbarText, SaveOwned DEF ToolbarSave
<1>9. CASE ModS
  <2>1. editor.doc \in Contents /\ Own(editor.doc, file.path)
    BY <1>9 DEF ModS, NoEditor, Inv, TabInv, PaneOK, EditorOK, Editors
  <2> QED
    BY <1>9, <2>1, SaveOwned DEF ModS
<1>10. CASE LeaveTab
  BY <1>10 DEF LeaveTab, Blank, SpinnerOwned
<1>11. ASSUME NEW v \in Values, Type(v) PROVE SpinnerOwned'
  <2>1. UNCHANGED <<calls, busy>> /\ next'.saving = next.saving
    BY <1>11 DEF Type, Inv, TabInv, NextOK, Screens
  <2> QED
    BY <1>1, <2>1
<1>12. CASE \/ CloseDialog \/ NewFileClick \/ RefreshListing
            \/ NotRunning \/ Running \/ Render \/ UNCHANGED vars
  BY Zenon, <1>1, <1>12 DEF CloseDialog, NewFileClick, RefreshListing, NotRunning, Running,
                            Render, vars, ui
<1>13. ASSUME NEW s \in Slots, Serve(s) \/ Answer(s) \/ CallFails(s) PROVE SpinnerOwned'
  <2>1. s \in InFlight
    BY <1>13 DEF Serve, Answer, CallFails
  <2> QED
    BY <1>13, <2>1, AnswerOwned
<1> QED
  BY <1>3, <1>4, <1>6, <1>7, <1>8, <1>9, <1>10, <1>11, <1>12, <1>13 DEF Next, User

\* No spinner of the tab outlives the request that turned it on, for any
\* number of overlapping opens, saves and failures (each handler's finally).
THEOREM SpinnersOwned == Spec => []SpinnerOwned
<1>1. Init => SpinnerOwned
  BY DEF Init, Blank, SpinnerOwned
<1>2. Inv /\ SpinnerOwned /\ [Next]_vars => SpinnerOwned'
  BY NextOwned
<1> QED
  BY <1>1, <1>2, AlwaysInv, PTL DEF Spec

-----------------------------------------------------------------------------
\* What TypeOK says beyond Inv.
Rest ==
  /\ listing \subseteq Paths /\ latest \in Contents \cup {None} /\ gen # 0
  /\ running \in BOOLEAN /\ dirty \in BOOLEAN /\ busy \in BOOLEAN
  /\ saving \in BOOLEAN /\ unsaved \in BOOLEAN /\ overlap \in BOOLEAN

LEMMA FlushRest ==
  ASSUME Inv', NEW e, NEW u, Flush(e, u)
  PROVE  dirty' \in BOOLEAN /\ saving' \in BOOLEAN /\ unsaved' \in BOOLEAN
<1>1. dirty' \in BOOLEAN /\ saving' \in BOOLEAN
  BY DEF Flush, Inv, TabInv, NextOK, Screens
<1>2. unsaved' \in BOOLEAN
  BY Zenon DEF Flush
<1> QED
  BY <1>1, <1>2

\* The user's actions turn no more than the spinner and the flags.
LEMMA ActRest ==
  ASSUME Inv', Rest, NEW e, NEW u, Flush(e, u), Busied \/ UNCHANGED overlap,
         UNCHANGED <<listing, gen>>, running' \in BOOLEAN, busy' \in BOOLEAN,
         latest' \in Contents \cup {None}
  PROVE  Rest'
<1>1. overlap' \in BOOLEAN
  BY Zenon DEF Busied, Rest
<1>2. dirty' \in BOOLEAN /\ saving' \in BOOLEAN /\ unsaved' \in BOOLEAN
  BY Zenon, FlushRest
<1> QED
  BY Zenon, <1>1, <1>2 DEF Rest

LEMMA UserRest ==
  ASSUME Inv, Inv', Rest, User
  PROVE  Rest'
<1>1. ASSUME NEW p \in Paths, ClickFile(p) PROVE Rest'
  <2>1. busy' \in BOOLEAN
    BY Zenon, <1>1 DEF ClickFile, StartOpen, Rest
  <2> QED
    BY Zenon, <1>1, <2>1, ActRest DEF ClickFile, Rest
<1>2. ASSUME NEW p \in Paths, CreateFile(p) PROVE Rest'
  BY Zenon, <1>2, ActRest DEF CreateFile, Rest
<1>3. ASSUME NEW b \in Uploads, Upload(b) PROVE Rest'
  BY <1>3 DEF Upload, ui, Busied, Rest
<1>4. ASSUME NEW v \in Values, Type(v) PROVE Rest'
  <2>1. file.path \in Paths
    BY <1>4 DEF Type, NoEditor, Inv, TabInv, PaneOK, EditorOK, FileOK, OpenFiles
  <2>2. latest' \in Contents \cup {None}
    BY <1>4, <2>1, TextOf DEF Type
  <2> QED
    BY Zenon, <1>4, <2>2, ActRest DEF Type, Rest
<1>5. CASE ConfirmDiscard
  BY Zenon, <1>5, ActRest DEF ConfirmDiscard, StartOpen, Rest
<1>6. CASE CloseDialog \/ NewFileClick
  BY Zenon, <1>6, ActRest DEF CloseDialog, NewFileClick, Rest
<1>7. CASE RefreshListing
  BY <1>7 DEF RefreshListing, ui, Rest
<1>8. ASSUME NEW x, Save(x) PROVE Rest'
  BY Zenon, <1>8, ActRest DEF Save, Rest
<1>9. CASE LeaveTab
  BY Zenon, <1>9, ActRest DEF LeaveTab, Rest
<1> QED
  BY <1>1, <1>2, <1>3, <1>4, <1>5, <1>6, <1>7, <1>8, <1>9 DEF User, ToolbarSave, ModS

LEMMA NextRest ==
  ASSUME Inv, Inv', Rest, [Next]_vars
  PROVE  Rest'
<1>1. CASE NotRunning \/ Running \/ Render
  BY Zenon, <1>1, ActRest DEF NotRunning, Running, Render, Rest
<1>2. ASSUME NEW s \in Slots, Serve(s) \/ CallFails(s) PROVE Rest'
  BY Zenon, <1>2 DEF Serve, CallFails, ui, Rest
<1>3. ASSUME NEW s \in InFlight, OpenAnswered(s) PROVE Rest'
  <2>1. calls[s].got # None => Decoded(calls[s].got) \in Contents
    BY DecodedOf DEF Inv, CallInv, CallOK, Call
  <2>2. gen + 1 # 0
    BY DEF Inv, TabInv
  <2>3. latest' = latest \/ latest' = Opened(calls[s]).text
    BY Zenon, <1>3 DEF OpenAnswered
  <2>4. latest' \in Contents \cup {None}
    BY <1>3, <2>1, <2>3 DEF OpenAnswered, Opened, Rest
  <2>5. gen' # 0
    BY <1>3, <2>2 DEF OpenAnswered, Rest
  <2> QED
    BY Zenon, <1>3, <2>4, <2>5 DEF OpenAnswered, Rest
<1>4. ASSUME NEW s \in InFlight, SaveAnswered(s) PROVE Rest'
  BY Zenon, <1>4 DEF SaveAnswered, Rest
<1>5. ASSUME NEW s \in InFlight, WriteAnswered(s) PROVE Rest'
  BY <1>5 DEF WriteAnswered, ui, Rest
<1>6. ASSUME NEW s \in InFlight, ListAnswered(s) PROVE Rest'
  BY Zenon, <1>6 DEF ListAnswered, Rest
<1>7. CASE UNCHANGED vars
  BY <1>7 DEF vars, ui, Rest
<1> QED
  BY <1>1, <1>2, <1>3, <1>4, <1>5, <1>6, <1>7, UserRest DEF Next, Answer

LEMMA AlwaysRest == Spec => []Rest
<1>1. Init => Rest
  <2>1. Init => gen # 0
    BY DEF Init
  <2> QED
    BY Zenon, <2>1 DEF Init, Rest
<1>2. Inv /\ Inv' /\ Rest /\ [Next]_vars => Rest'
  BY NextRest
<1> QED
  BY <1>1, <1>2, AlwaysInv, PTL DEF Spec

\* The state of the tab keeps its types through every render, answer and
\* failure (OpenFile, the refs and the useState hooks of FilesTab.tsx).
THEOREM TypesKept == Spec => []TypeOK
<1>1. ASSUME Inv, Rest PROVE TypeOK
  <2>1. file \in OpenFiles \cup {None} /\ next \in Screens
    BY <1>1 DEF Inv, TabInv, NextOK, PaneOK, FileOK
  <2>2. Screen \in Screens
    BY <1>1, <2>1 DEF Rest, Screen, Screens
  <2>3. editor \in Editors \cup {None}
    BY <1>1 DEF Inv, TabInv, PaneOK, EditorOK
  <2> QED
    BY <1>1, <2>1, <2>2, <2>3 DEF Inv, Rest, DiskInv, CallInv, TabInv, Editors, Screens, TypeOK
<1> QED
  BY <1>1, AlwaysInv, AlwaysRest, PTL

-----------------------------------------------------------------------------
(***************************************************************************)
(* What a user who waits for each request and its render can rely on.  As  *)
(* long as none was overlapped, one request is in flight at most, an open  *)
(* in flight leaves nothing dirty, and unsaved keystrokes are in the       *)
(* mounted editor, mirrored by latestTextRef, of the file the next render  *)
(* shows, and in the one save that may be on its way.                      *)
(***************************************************************************)
SaveOf(c) ==
  /\ c.text = editor.doc /\ c.path = editor.key[1]
  /\ c.at = "done" => disk[c.path] = c.text
Saving(c) == c.then = "save" /\ c.live

\* Where unsaved keystrokes are.
Held == /\ editor # None
        /\ next.dirty \/ editor.doc = editor.initial
        /\ next.dirty => latest = editor.doc /\ next.file = file

Quiet ==
  /\ \A s, t \in InFlight : s = t
  /\ \A s \in InFlight : calls[s].op = "read" /\ calls[s].live => ~next.dirty
  /\ \A s \in InFlight : calls[s].then = "save" => ~calls[s].file.tooLarge
  /\ next.dirty /\ next.file # None => ~next.file.tooLarge
  /\ unsaved => Held
  /\ unsaved => \A s \in InFlight : Saving(calls[s]) => SaveOf(calls[s])

Pane == editor # None => running /\ Shown(file)
Writable == \A s \in InFlight : calls[s].then = "save" =>
              ~calls[s].file.readOnly /\ ~calls[s].file.binary
KeptInv == Pane /\ Writable /\ (overlap \/ Quiet)

\* What is mounted is of a file that can be shown, on a guest that runs.
LEMMA FlushPane ==
  ASSUME NEW e, NEW u, Flush(e, u)
  PROVE  Pane' /\ (unsaved' => u /\ editor' = e)
BY DEF Flush, Pane, Rendered, NoEditor

\* A first request is the only one.
LEMMA SentFirst ==
  ASSUME Inv, NEW c, c # None, Send(c)
  PROVE  \E t \in Slots : /\ calls[t] = None /\ calls'[t] = c /\ t \in InFlight'
                          /\ \A s \in InFlight' : s # t => s \in InFlight /\ calls'[s] = calls[s]
                          /\ Idle => InFlight' = {t}
<1>1. PICK t \in Slots : calls[t] = None /\ calls' = [calls EXCEPT ![t] = c]
  BY Zenon DEF Send, InFlight
<1>2. calls'[t] = c /\ \A s \in Slots : s # t => calls'[s] = calls[s]
  BY <1>1 DEF Inv, CallInv
<1> QED
  BY <1>1, <1>2 DEF Idle, InFlight

\* The user waited for the requests and for their renders.
LEMMA Waited ==
  ASSUME Rest, KeptInv, Busied, ~overlap'
  PROVE  ~overlap /\ Idle /\ Quiet /\ next.file = file /\ next.dirty = dirty
<1>1. ~overlap /\ Idle /\ Quiet /\ ~Due
  BY Zenon DEF Busied, Rest, KeptInv
<1>2. next.file = file /\ next.dirty = dirty
  BY <1>1 DEF Due, Screen
<1> QED
  BY <1>1, <1>2

LEMMA SentKept ==
  ASSUME Inv, Rest, KeptInv, NEW c, c # None, Send(c), Busied,
         UNCHANGED <<disk, latest>>, Pane',
         next'.file = next.file, file' = next.file \/ file' = file, next'.dirty => next.dirty,
         unsaved' => unsaved /\ editor' = editor,
         unsaved' /\ ~overlap' /\ next.dirty => next'.dirty,
         c.op = "read" => ~next'.dirty,
         c.then = "save" => /\ ~c.file.readOnly /\ ~c.file.binary
                            /\ ~overlap' => ~c.file.tooLarge
                            /\ ~overlap' /\ unsaved => SaveOf(c)
  PROVE  KeptInv'
<1>1. PICK t \in Slots : /\ calls[t] = None /\ calls'[t] = c /\ t \in InFlight'
                         /\ \A s \in InFlight' : s # t => s \in InFlight /\ calls'[s] = calls[s]
                         /\ Idle => InFlight' = {t}
  BY Zenon, SentFirst
<1>2. Writable'
  BY <1>1 DEF KeptInv, Writable
<1>3. ASSUME ~overlap' PROVE Quiet'
  <2>1. ~overlap /\ Idle /\ Quiet /\ file' = file /\ next.file = file
    BY <1>3, Waited
  <2>2. InFlight' = {t}
    BY <1>1, <2>1
  <2>3. /\ \A s, r \in InFlight' : s = r
        /\ \A s \in InFlight' : calls'[s].op = "read" /\ calls'[s].live => ~next'.dirty
        /\ \A s \in InFlight' : calls'[s].then = "save" => ~calls'[s].file.tooLarge
    BY <1>1, <1>3, <2>2
  <2>4. next'.dirty /\ next'.file # None => ~next'.file.tooLarge
    BY <2>1 DEF Quiet
  <2>5. unsaved' => Held'
    BY <1>3, <2>1 DEF Quiet, Held
  <2>6. unsaved' => \A s \in InFlight' : Saving(calls'[s]) => SaveOf(calls[s])'
    BY <1>1, <1>3, <2>2 DEF Saving, SaveOf
  <2> QED
    BY <2>3, <2>4, <2>5, <2>6 DEF Quiet, Saving
<1> QED
  BY <1>2, <1>3 DEF KeptInv

\* A step that renders, or turns only a dialog, the listing or `overlap`.
LEMMA SameKept ==
  ASSUME KeptInv, overlap => overlap', UNCHANGED <<disk, next, latest, calls>>,
         Pane', file' = next.file \/ file' = file, unsaved' => unsaved /\ editor' = editor
  PROVE  KeptInv'
<1>1. Writable'
  BY DEF KeptInv, Writable, InFlight
<1>2. ASSUME Quiet PROVE Quiet'
  <2>1. unsaved' => Held'
    BY <1>2 DEF Quiet, Held
  <2>2. unsaved' => \A s \in InFlight' : Saving(calls'[s]) => SaveOf(calls[s])'
    BY <1>2 DEF Quiet, InFlight, Saving, SaveOf
  <2>3. InFlight' = InFlight
    BY DEF InFlight
  <2> QED
    BY <1>2, <2>1, <2>2, <2>3 DEF Quiet, Saving
<1> QED
  BY <1>1, <1>2 DEF KeptInv

LEMMA OpenKept ==
  ASSUME Inv, Rest, KeptInv, NEW p \in Paths, NEW b \in BOOLEAN, StartOpen(p, b), Busied,
         UNCHANGED <<disk, latest>>, NEW u, Flush(editor, u), u => unsaved /\ ~dirty
  PROVE  KeptInv'
<1> DEFINE c == readGuestFile(p, b)
<1>1. c # None /\ c.op = "read" /\ c.then = "open"
  <2>1. c \in Call
    BY Zenon, ReadOK DEF CallOK
  <2>2. c # None
    BY Zenon, <2>1, NoneAssumption
  <2>3. c.op = "read" /\ c.then = "open"
    BY DEF readGuestFile
  <2> QED
    BY <2>2, <2>3
<1>2. Send(c)
  BY DEF StartOpen
<1> HIDE DEF c
<1>3. next'.file = next.file /\ ~next'.dirty
  BY DEF StartOpen, Inv, TabInv, NextOK, Screens
<1>4. Pane' /\ (unsaved' => u /\ editor' = editor) /\ file' = next.file
  BY <1>3, FlushPane DEF Flush
<1>5. unsaved' /\ ~overlap' => ~next.dirty
  BY <1>4, Waited
<1> QED
  BY <1>1, <1>2, <1>3, <1>4, <1>5, SentKept

LEMMA SaveKept ==
  ASSUME Inv, Rest, KeptInv, NEW x \in Contents, file # None => Own(x, file.path), Save(x),
         ~overlap' /\ unsaved => editor # None /\ x = editor.doc,
         ~overlap' => ~file.tooLarge
  PROVE  KeptInv'
<1> DEFINE c == writeGuestFile(file.path, x, "save", file)
<1>1. file.path \in Paths /\ file \in OpenFiles /\ Own(x, file.path) /\ latest \in Contents
  BY DEF Save, NoFile, Inv, TabInv, PaneOK, FileOK, OpenFiles
<1>2. c \in Call
  BY <1>1, WriteOK DEF CallOK
<1>3. /\ c.text = x /\ c.path = file.path /\ c.at = "sent" /\ c.op = "write"
      /\ c.file = file
  BY DEF writeGuestFile
<1>4. c # None
  BY <1>2, NoneAssumption
<1>5. /\ Send(c) /\ Busied /\ ~file.readOnly /\ ~file.binary
      /\ UNCHANGED <<disk, latest>> /\ Flush(editor, unsaved)
  BY DEF Save
<1> HIDE DEF c
<1>6. next'.file = next.file /\ next'.dirty = next.dirty
  BY DEF Save, Inv, TabInv, NextOK, Screens
<1>7. Pane' /\ (unsaved' => unsaved /\ editor' = editor) /\ file' = next.file
  BY <1>5, <1>6, FlushPane DEF Flush
<1>8. ~overlap' /\ unsaved => SaveOf(c)
  BY <1>3 DEF SaveOf, Inv, TabInv, PaneOK, EditorOK, Key
<1>9. ~c.file.readOnly /\ ~c.file.binary /\ (~overlap' => ~c.file.tooLarge) /\ c.op # "read"
  BY <1>3, <1>5
<1> QED
  BY <1>4, <1>5, <1>6, <1>7, <1>8, <1>9, SentKept

LEMMA TypeKept ==
  ASSUME Inv, Rest, KeptInv, NEW v \in Values, Type(v)
  PROVE  KeptInv'
<1> DEFINE x == Text(file.path, v)
           e == [editor EXCEPT !.doc = x]
<1>1. editor # None /\ running /\ Shown(file) /\ editor \in Editors /\ editor.key = Key(file)
  BY DEF Type, NoEditor, KeptInv, Pane, Inv, TabInv, PaneOK, EditorOK
<1>2. /\ UNCHANGED <<disk, running, calls>> /\ Busied /\ latest' = x /\ Flush(e, TRUE)
      /\ next' = [next EXCEPT !.dirty = (x # editor.initial)]
  BY Zenon DEF Type
<1> HIDE DEF x
<1>3. /\ e.doc = x /\ e.initial = editor.initial /\ e.key = editor.key
      /\ x \in Contents => e \in Editors
  BY <1>1 DEF Editors
<1> HIDE DEF e
<1>4. next'.file = next.file /\ (next'.dirty <=> x # editor.initial)
  BY <1>2 DEF Inv, TabInv, NextOK, Screens
<1>5. Pane' /\ (unsaved' => editor' = e) /\ file' = next.file
  BY <1>2, <1>4, FlushPane DEF Flush
<1>6. Writable'
  BY <1>2 DEF KeptInv, Writable, InFlight
<1>7. ASSUME ~overlap' PROVE Quiet'
  <2>1. Idle /\ next.file = file
    BY <1>2, <1>7, Waited
  <2>2. InFlight' = {}
    BY <1>2, <2>1 DEF Idle, InFlight
  <2>3. ~next'.file.tooLarge
    BY <1>1, <1>4, <2>1 DEF Shown
  <2>4. unsaved' => editor' # None
    <3>1. file.path \in Paths
      BY <1>1 DEF Inv, TabInv, PaneOK, EditorOK, FileOK, OpenFiles
    <3>2. x \in Contents
      BY <3>1, TextOf DEF x
    <3> QED
      BY <1>3, <1>5, <3>2, NoneAssumption
  <2>5. unsaved' => Held'
    BY <1>2, <1>3, <1>4, <1>5, <2>1, <2>4 DEF Held
  <2> QED
    BY <2>2, <2>3, <2>5 DEF Quiet
<1> QED
  BY <1>5, <1>6, <1>7 DEF KeptInv

LEMMA LeaveKept ==
  ASSUME Inv, Rest, KeptInv, LeaveTab
  PROVE  KeptInv'
<1>1. /\ next' = Blank /\ Flush(NoEditor, FALSE) /\ overlap' = overlap
      /\ calls' = [s \in Slots |-> IF calls[s] = None THEN None
                                   ELSE [calls[s] EXCEPT !.live = FALSE]]
  BY DEF LeaveTab
<1>2. ASSUME NEW s \in InFlight'
      PROVE  /\ s \in InFlight /\ calls'[s].then = calls[s].then
             /\ calls'[s].file = calls[s].file
  <2>1. s \in Slots /\ calls[s] # None /\ calls'[s] = [calls[s] EXCEPT !.live = FALSE]
    BY <1>1, <1>2 DEF InFlight
  <2>2. calls[s] \in Call
    BY <2>1 DEF Inv, CallInv
  <2> QED
    BY <2>1, <2>2 DEF Call, InFlight
<1>3. Pane' /\ ~unsaved'
  BY <1>1, FlushPane
<1>4. Writable'
  BY <1>2 DEF KeptInv, Writable
<1>5. ~next'.dirty
  BY <1>1 DEF Blank
<1>6. Quiet => Quiet'
  BY <1>2, <1>3, <1>5 DEF Quiet
<1> QED
  BY <1>1, <1>3, <1>4, <1>6 DEF KeptInv

LEMMA UserKept ==
  ASSUME Inv, Rest, KeptInv, User
  PROVE  KeptInv'
<1>1. ASSUME UNCHANGED <<disk, next, latest, calls>>, Busied, Flush(editor, unsaved)
      PROVE  KeptInv'
  <2>1. Pane' /\ (unsaved' => unsaved /\ editor' = editor) /\ file' = next.file
    BY <1>1, FlushPane DEF Flush
  <2>2. overlap => overlap'
    BY Zenon, <1>1 DEF Busied
  <2> QED
    BY <1>1, <2>1, <2>2, SameKept
<1>2. ASSUME NEW p \in Paths, ClickFile(p) PROVE KeptInv'
  <2>1. CASE dirty
    BY Zenon, <1>1, <1>2, <2>1 DEF ClickFile
  <2>2. CASE ~dirty
    BY Zenon, <1>2, <2>2, OpenKept DEF ClickFile
  <2> QED
    BY <2>1, <2>2
<1>3. ASSUME NEW p \in Paths, NEW x \in Contents, NEW w \in {"create", "upload"}, Own(x, p),
             Send(writeGuestFile(p, x, w, None)), Busied,
             UNCHANGED <<disk, latest, next>>,
             Pane', file' = next.file \/ file' = file, unsaved' => unsaved /\ editor' = editor
      PROVE  KeptInv'
  <2> DEFINE c == writeGuestFile(p, x, w, None)
  <2>1. c \in Call
    BY <1>3, WriteOK DEF CallOK
  <2>2. c # None /\ c.op = "write" /\ c.then = w
    BY Zenon, <2>1, NoneAssumption DEF writeGuestFile
  <2> HIDE DEF c
  <2>3. c.op # "read" /\ c.then # "save"
    BY <2>2
  <2>4. Send(c)
    BY <1>3 DEF c
  <2> QED
    BY <1>3, <2>2, <2>3, <2>4, SentKept
<1>4. ASSUME NEW p \in Paths, CreateFile(p) PROVE KeptInv'
  <2>1. Text(p, Empty) \in Contents /\ Own(Text(p, Empty), p)
    BY TextOf, FilesAssumption DEF Own
  <2>2. /\ Send(writeGuestFile(p, Text(p, Empty), "create", None)) /\ Busied
        /\ UNCHANGED <<disk, latest, next>> /\ Flush(editor, unsaved)
    BY <1>4 DEF CreateFile
  <2>3. Pane' /\ (unsaved' => unsaved /\ editor' = editor) /\ file' = next.file
    BY <2>2, FlushPane DEF Flush
  <2> QED
    BY <1>3, <2>1, <2>2, <2>3
<1>5. ASSUME NEW b \in Uploads, Upload(b) PROVE KeptInv'
  <2>1. b \in Contents /\ b.of \in Paths /\ Own(b, b.of)
    BY FilesAssumption DEF Own, Contents
  <2>2. /\ Send(writeGuestFile(b.of, b, "upload", None)) /\ Busied
        /\ UNCHANGED <<disk, latest, next, file, editor, running, unsaved>>
    BY <1>5 DEF Upload, ui
  <2>3. Pane'
    BY <2>2 DEF KeptInv, Pane, Shown
  <2> QED
    BY <1>3, <2>1, <2>2, <2>3
<1>6. ASSUME NEW v \in Values, Type(v) PROVE KeptInv'
  BY <1>6, TypeKept
<1>7. CASE ConfirmDiscard
  <2>1. dialog.pending \in Paths
    BY <1>7 DEF ConfirmDiscard, Inv, TabInv
  <2> QED
    BY Zenon, <1>7, <2>1, OpenKept DEF ConfirmDiscard
<1>8. CASE CloseDialog \/ NewFileClick
  BY Zenon, <1>1, <1>8 DEF CloseDialog, NewFileClick
<1>9. CASE RefreshListing
  <2>1. UNCHANGED <<disk, running, file, next, latest, editor, unsaved, calls, overlap>>
    BY <1>9 DEF RefreshListing, ui
  <2>2. Pane'
    BY <2>1 DEF KeptInv, Pane, Shown
  <2> QED
    BY <2>1, <2>2, SameKept
<1>10. CASE ToolbarSave
  <2>1. Save(latest) /\ Busied /\ dirty /\ file # None
    BY <1>10 DEF ToolbarSave, Save, NoFile
  <2>2. ASSUME ~overlap' PROVE ~file.tooLarge /\ (unsaved => editor # None /\ latest = editor.doc)
    <3>1. Quiet /\ next.file = file /\ next.dirty
      BY Zenon, <2>1, <2>2, Waited
    <3> QED
      BY <2>1, <3>1 DEF Quiet, Held
  <2> QED
    BY <1>10, <2>1, <2>2, ToolbarText, SaveKept
<1>11. CASE ModS
  <2>1. editor # None /\ editor.doc \in Contents /\ Own(editor.doc, file.path)
    BY <1>11 DEF ModS, NoEditor, Inv, TabInv, PaneOK, EditorOK, Editors
  <2>2. ~file.tooLarge
    BY <2>1 DEF KeptInv, Pane, Shown
  <2> QED
    BY <1>11, <2>1, <2>2, SaveKept DEF ModS
<1>12. CASE LeaveTab
  BY <1>12, LeaveKept
<1> QED
  BY <1>2, <1>4, <1>5, <1>6, <1>7, <1>8, <1>9, <1>10, <1>11, <1>12 DEF User

-----------------------------------------------------------------------------
\* A request leaves its slot, or is replaced by one that is no save.
LEMMA ReplyKept ==
  ASSUME Inv, KeptInv, NEW s \in InFlight, NEW x,
         calls' = [calls EXCEPT ![s] = x],
         x # None => x.then # "save" /\ (x.op = "read" /\ x.live => ~next'.dirty),
         UNCHANGED <<running, file, latest, editor, overlap>>, next'.file = next.file,
         (unsaved' = unsaved /\ next'.dirty = next.dirty) \/ (~unsaved' /\ ~next'.dirty)
  PROVE  KeptInv'
<1>1. calls'[s] = x /\ \A t \in Slots : t # s => calls'[t] = calls[t]
  BY DEF InFlight, Inv, CallInv
<1>2. \A t \in InFlight' : t \in InFlight /\ (t = s => x # None) /\ (t # s => calls'[t] = calls[t])
  BY <1>1 DEF InFlight
<1>3. Pane' /\ Writable'
  BY <1>1, <1>2 DEF KeptInv, Pane, Writable, Shown
<1>4. ASSUME Quiet PROVE Quiet'
  <2>1. \A t \in InFlight' : t = s /\ calls'[t] = x /\ x # None
    BY <1>1, <1>2, <1>4 DEF Quiet
  <2>2. unsaved' => Held'
    BY <1>4 DEF Quiet, Held
  <2>3. next'.dirty /\ next'.file # None => ~next'.file.tooLarge
    BY <1>4 DEF Quiet
  <2> QED
    BY <2>1, <2>2, <2>3 DEF Quiet, Saving
<1> QED
  BY <1>3, <1>4 DEF KeptInv

LEMMA ServeKept ==
  ASSUME Inv, KeptInv, NEW s \in InFlight, Serve(s)
  PROVE  KeptInv'
<1> DEFINE c == calls[s]
           g == IF c.op = "read" THEN disk[c.path] ELSE None
           d == [c EXCEPT !.at = "done", !.got = g]
<1>1. CallOK(c) /\ c.path \in Paths
  BY DEF Inv, CallInv, CallOK, Call
<1>2. /\ calls' = [calls EXCEPT ![s] = d]
      /\ disk' = IF c.op = "write" THEN [disk EXCEPT ![c.path] = c.text] ELSE disk
      /\ UNCHANGED <<running, file, next, latest, editor, unsaved, overlap>>
  BY Zenon DEF Serve, ui
<1>3. g \in Contents \cup {None}
  BY <1>1 DEF Inv, DiskInv
<1> HIDE DEF g
<1>4. /\ d.live = c.live /\ d.op = c.op /\ d.then = c.then /\ d.file = c.file
      /\ d.text = c.text /\ d.path = c.path
  BY Zenon, <1>1, <1>3 DEF CallOK, Call
<1>5. c.op = "write" => disk'[c.path] = c.text
  BY <1>1, <1>2 DEF Inv, DiskInv
<1>6. c.then = "save" => c.op = "write"
  BY <1>1 DEF CallOK
<1> HIDE DEF d
<1>7. calls'[s] = d /\ \A t \in InFlight' : t \in InFlight /\ (t # s => calls'[t] = calls[t])
  BY <1>2 DEF InFlight, Inv, CallInv
<1> HIDE DEF c
<1>8. Pane' /\ Writable'
  BY <1>2, <1>4, <1>7 DEF KeptInv, Pane, Writable, Shown, c
<1>9. ASSUME Quiet PROVE Quiet'
  <2>1. \A t \in InFlight' : t = s /\ calls'[t] = d
    BY <1>7, <1>9 DEF Quiet
  <2>2. /\ \A t, r \in InFlight' : t = r
        /\ \A t \in InFlight' : calls'[t].op = "read" /\ calls'[t].live => ~next'.dirty
        /\ \A t \in InFlight' : calls'[t].then = "save" => ~calls'[t].file.tooLarge
    BY <1>2, <1>4, <1>9, <2>1 DEF Quiet, c
  <2>3. next'.dirty /\ next'.file # None => ~next'.file.tooLarge
    BY <1>2, <1>9 DEF Quiet
  <2>4. unsaved' => Held'
    BY <1>2, <1>9 DEF Quiet, Held
  <2>5. unsaved' => \A t \in InFlight' : Saving(calls'[t]) => SaveOf(calls[t])'
    <3> SUFFICES ASSUME unsaved', NEW t \in InFlight', Saving(calls'[t])
                 PROVE  SaveOf(calls[t])'
      OBVIOUS
    <3>1. calls'[t] = d /\ Saving(c) /\ c.op = "write"
      BY <1>4, <1>6, <2>1 DEF Saving
    <3>2. c.text = editor.doc /\ c.path = editor.key[1]
      BY <1>2, <1>9, <3>1 DEF Quiet, SaveOf, c
    <3> QED
      BY <1>2, <1>4, <1>5, <3>1, <3>2 DEF SaveOf
  <2> QED
    BY <2>2, <2>3, <2>4, <2>5 DEF Quiet, Saving
<1> QED
  BY <1>2, <1>8, <1>9 DEF KeptInv

\* The answer to an open or a save leaves nothing dirty.
LEMMA LoadKept ==
  ASSUME Inv, KeptInv, NEW s \in InFlight, calls' = [calls EXCEPT ![s] = None],
         UNCHANGED <<running, file, editor, overlap>>, overlap \/ ~next'.dirty,
         ~overlap /\ unsaved' => editor # None /\ editor.doc = editor.initial
  PROVE  KeptInv'
<1>1. calls'[s] = None /\ \A t \in Slots : t # s => calls'[t] = calls[t]
  BY DEF InFlight, Inv, CallInv
<1>2. \A t \in InFlight' : t \in InFlight /\ t # s /\ calls'[t] = calls[t]
  BY <1>1 DEF InFlight
<1>3. Pane' /\ Writable'
  BY <1>2 DEF KeptInv, Pane, Writable, Shown
<1>4. ASSUME Quiet, ~overlap PROVE Quiet'
  <2>1. InFlight' = {}
    BY <1>2, <1>4 DEF Quiet
  <2>2. unsaved' => Held'
    BY <1>4 DEF Held
  <2> QED
    BY <1>4, <2>1, <2>2 DEF Quiet
<1> QED
  BY <1>3, <1>4 DEF KeptInv

LEMMA AnswerKept ==
  ASSUME Inv, Rest, KeptInv, NEW s \in InFlight, Answer(s) \/ CallFails(s)
  PROVE  KeptInv'
<1> DEFINE c == calls[s]
<1>1. c \in Call /\ c.live \in BOOLEAN /\ c.path \in Paths
  BY DEF Inv, CallInv, CallOK, Call
<1>2. ASSUME calls' = [calls EXCEPT ![s] = None],
             UNCHANGED <<running, file, latest, editor, overlap, unsaved>>,
             next'.file = next.file, next'.dirty = next.dirty
      PROVE  KeptInv'
  BY <1>2, ReplyKept
<1>3. CASE OpenAnswered(s)
  <2>1. /\ calls' = [calls EXCEPT ![s] = None] /\ c.op = "read"
        /\ UNCHANGED <<disk, running, file, editor, overlap, unsaved>>
    BY <1>3 DEF OpenAnswered
  <2>2. CASE c.live
    <3>1. next'.dirty = next.dirty
      BY <1>3, <2>2 DEF OpenAnswered, Inv, TabInv, NextOK, Screens
    <3>2. overlap \/ ~next.dirty
      BY <2>1, <2>2 DEF KeptInv, Quiet
    <3>3. ~overlap /\ unsaved => editor # None /\ editor.doc = editor.initial
      BY <3>2 DEF KeptInv, Quiet, Held
    <3> QED
      BY <2>1, <3>1, <3>2, <3>3, LoadKept
  <2>3. CASE ~c.live
    <3>1. UNCHANGED <<next, latest>>
      BY <1>3, <2>3 DEF OpenAnswered
    <3> QED
      BY <1>2, <2>1, <3>1
  <2> QED
    BY <2>2, <2>3
<1>4. CASE SaveAnswered(s)
  <2>1. /\ calls' = [calls EXCEPT ![s] = None]
        /\ UNCHANGED <<disk, running, file, latest, editor, overlap>>
    BY <1>4 DEF SaveAnswered
  <2>2. CASE c.live
    <3>1. ~next'.dirty /\ ~unsaved'
      BY <1>4, <2>2 DEF SaveAnswered
    <3> QED
      BY <2>1, <3>1, LoadKept
  <2>3. CASE ~c.live
    <3>1. UNCHANGED <<next, unsaved>>
      BY Zenon, <1>4, <2>3 DEF SaveAnswered
    <3> QED
      BY <1>2, <2>1, <3>1
  <2> QED
    BY <2>2, <2>3
<1>5. CASE WriteAnswered(s)
  <2>1. /\ calls' = [calls EXCEPT ![s] = refreshTree(c)] /\ c.then \in {"create", "upload"}
        /\ UNCHANGED <<disk, running, file, next, latest, editor, overlap, unsaved>>
    BY <1>5 DEF WriteAnswered, ui
  <2>2. refreshTree(c).op = "list" /\ refreshTree(c).then = c.then
    BY <1>1 DEF refreshTree, Call
  <2>3. refreshTree(c).op # "read" /\ refreshTree(c).then # "save"
    BY <2>1, <2>2
  <2> QED
    BY Zenon, <2>1, <2>3, ReplyKept
<1>6. CASE ListAnswered(s)
  <2> DEFINE e == [readGuestFile(c.path, TRUE) EXCEPT !.live = c.live]
  <2>1. UNCHANGED <<disk, running, file, latest, editor, overlap>>
    BY <1>6 DEF ListAnswered
  <2>2. CASE c.then = "create"
    <3>1. /\ calls' = [calls EXCEPT ![s] = e] /\ unsaved' = (unsaved /\ ~c.live)
      BY Zenon, <1>6, <2>2 DEF ListAnswered
    <3>2. next'.file = next.file /\ next'.dirty = (next.dirty /\ ~c.live) /\ next.dirty \in BOOLEAN
      BY <1>6, <2>2 DEF ListAnswered, Inv, TabInv, NextOK, Screens
    <3>3. e.then # "save" /\ e.live = c.live
      BY DEF readGuestFile
    <3> HIDE DEF e
    <3>4. CASE c.live
      <4>1. ~next'.dirty /\ ~unsaved'
        BY Zenon, <3>1, <3>2, <3>4
      <4> QED
        BY <2>1, <3>1, <3>2, <3>3, <4>1, ReplyKept
    <3>5. CASE ~c.live
      <4>1. next'.dirty = next.dirty /\ unsaved' = unsaved
        BY <3>1, <3>2, <3>5 DEF Rest
      <4> QED
        BY <2>1, <3>1, <3>2, <3>3, <3>5, <4>1, ReplyKept
    <3> QED
      BY <3>4, <3>5
  <2>3. CASE c.then # "create"
    BY Zenon, <1>2, <1>6, <2>1, <2>3 DEF ListAnswered
  <2> QED
    BY <2>2, <2>3
<1>7. CASE CallFails(s)
  <2>1. /\ calls' = [calls EXCEPT ![s] = None]
        /\ UNCHANGED <<running, file, latest, editor, overlap, unsaved>>
    BY <1>7 DEF CallFails
  <2>2. next'.file = next.file /\ next'.dirty = next.dirty
    BY <1>7 DEF CallFails, Inv, TabInv, NextOK, Screens
  <2> QED
    BY <1>2, <2>1, <2>2
<1> QED
  BY <1>3, <1>4, <1>5, <1>6, <1>7 DEF Answer

LEMMA NextKept ==
  ASSUME Inv, Rest, KeptInv, [Next]_vars
  PROVE  KeptInv'
<1>1. CASE User
  BY <1>1, UserKept
<1>2. CASE NotRunning \/ Running \/ Render
  <2>1. UNCHANGED <<disk, next, latest, calls, overlap>> /\ Flush(editor, unsaved)
    BY <1>2 DEF NotRunning, Running, Render
  <2>2. Pane' /\ (unsaved' => unsaved /\ editor' = editor) /\ file' = next.file
    BY <2>1, FlushPane DEF Flush
  <2> QED
    BY <2>1, <2>2, SameKept
<1>3. ASSUME NEW s \in Slots, Serve(s) \/ Answer(s) \/ CallFails(s) PROVE KeptInv'
  <2>1. s \in InFlight
    BY <1>3 DEF Serve, Answer, CallFails
  <2> QED
    BY <1>3, <2>1, ServeKept, AnswerKept
<1>4. CASE UNCHANGED vars
  <2>1. UNCHANGED <<disk, running, file, next, latest, editor, unsaved, calls, overlap>>
    BY <1>4 DEF vars, ui
  <2>2. Pane'
    BY <2>1 DEF KeptInv, Pane, Shown
  <2> QED
    BY <2>1, <2>2, SameKept
<1> QED
  BY <1>1, <1>2, <1>3, <1>4 DEF Next

LEMMA AlwaysKept == Spec => []KeptInv
<1>1. Init => KeptInv
  BY DEF Init, NoEditor, Blank, KeptInv, Pane, Writable, Quiet, InFlight
<1>2. Inv /\ Rest /\ KeptInv /\ [Next]_vars => KeptInv'
  BY NextKept
<1> QED
  BY <1>1, <1>2, AlwaysInv, AlwaysRest, PTL DEF Spec

\* No save leaves for a read-only or binary file, nor for one that is too
\* large unless the user once acted under a request or before its render (the
\* guards of save and of the Save button, against a `file` that answers
\* replace).
THEOREM SavesAimed == Spec => []SaveTargets
<1>1. KeptInv => SaveTargets
  BY DEF KeptInv, Writable, Quiet, SaveTargets
<1> QED
  BY <1>1, AlwaysKept, PTL

-----------------------------------------------------------------------------
\* The steps that let keystrokes go.
LEMMA ForcedStep ==
  ASSUME NEW s \in Slots, calls'[s] # calls[s], calls'[s] # None,
         calls'[s].op = "read", calls'[s].forced = TRUE
  PROVE  Forced
BY DEF Forced

\* A render keeps the editor that holds unsaved keystrokes.
LEMMA FlushHolds ==
  ASSUME Inv, KeptInv, ~overlap, unsaved, next'.file = next.file, running',
         NEW e, e # None, e.key = editor.key, NEW u, u, Flush(e, u)
  PROVE  unsaved' \/ editor.doc = editor.initial
<1>1. Held /\ Shown(file) /\ editor.key = Key(file)
  BY DEF KeptInv, Quiet, Held, Pane, Inv, TabInv, PaneOK, EditorOK
<1>2. CASE next.dirty
  <2>1. editor' = Rendered(e, file, running')
    BY <1>1, <1>2 DEF Held, Flush
  <2>2. editor' = e
    BY <1>1, <2>1 DEF Rendered, NoEditor
  <2> QED
    BY <2>2 DEF Flush
<1> QED
  BY <1>1, <1>2 DEF Held

LEMMA KeystrokesStep ==
  ASSUME Inv, Rest, KeptInv, Next, unsaved, ~unsaved'
  PROVE  \/ file' = NoFile \/ ~running' \/ Forced \/ overlap
         \/ editor.doc = editor.initial
         \/ disk[file.path] = editor.doc
<1> DEFINE Goal == \/ file' = NoFile \/ ~running' \/ Forced \/ overlap
                   \/ editor.doc = editor.initial
                   \/ disk[file.path] = editor.doc
<1>1. ASSUME unsaved' = unsaved \/ unsaved' = TRUE PROVE FALSE
  BY Zenon, <1>1
<1>2. ASSUME ~overlap PROVE editor # None /\ Held
  BY <1>2 DEF KeptInv, Quiet, Held
<1>3. ASSUME Flush(editor, unsaved), next'.file = next.file PROVE Goal
  BY <1>2, <1>3, FlushHolds
<1>4. CASE ConfirmDiscard
  <2> DEFINE p == dialog.pending
             c == readGuestFile(p, TRUE)
  <2>1. p \in Paths
    BY <1>4 DEF ConfirmDiscard, Inv, TabInv
  <2>2. c \in Call
    BY Zenon, <2>1, ReadOK DEF CallOK
  <2>3. c # None
    BY Zenon, <2>2, NoneAssumption
  <2>4. c.op = "read" /\ c.forced = TRUE
    BY DEF readGuestFile
  <2>5. Send(c)
    BY Zenon, <1>4 DEF ConfirmDiscard, StartOpen
  <2> HIDE DEF c
  <2>6. PICK t \in Slots : calls[t] = None /\ calls'[t] = c
    BY Zenon, <2>3, <2>5, SentFirst
  <2> QED
    BY Zenon, <2>3, <2>4, <2>6, ForcedStep
<1>5. CASE LeaveTab
  BY <1>5 DEF LeaveTab, Flush, Blank
<1>6. ASSUME NEW s \in InFlight, calls[s].at = "done", SaveAnswered(s) PROVE Goal
  <2>1. Saving(calls[s])
    BY Zenon, <1>1, <1>6 DEF SaveAnswered, Saving
  <2>2. overlap \/ (editor # None /\ SaveOf(calls[s]))
    BY <1>2, <2>1 DEF KeptInv, Quiet
  <2>3. editor # None => editor.key[1] = file.path
    BY DEF Inv, TabInv, PaneOK, EditorOK, Key
  <2> QED
    BY <1>6, <2>2, <2>3 DEF SaveOf
<1>7. ASSUME NEW s \in InFlight, ListAnswered(s) PROVE Forced
  <2> DEFINE c == calls[s]
             e == [readGuestFile(c.path, TRUE) EXCEPT !.live = c.live]
  <2>1. c.then = "create" /\ c.op = "list"
    BY Zenon, <1>1, <1>7 DEF ListAnswered
  <2>2. calls' = [calls EXCEPT ![s] = e]
    BY Zenon, <1>7, <2>1 DEF ListAnswered
  <2>3. c.live \in BOOLEAN /\ c.path \in Paths
    BY DEF Inv, CallInv, CallOK, Call
  <2>4. readGuestFile(c.path, TRUE) \in Call
    BY Zenon, <2>3, ReadOK DEF CallOK
  <2>5. e \in Call /\ e.op = "read" /\ e.forced = TRUE
    BY Zenon, <2>3, <2>4 DEF Call, readGuestFile
  <2>6. e # None
    BY Zenon, <2>5, NoneAssumption
  <2> HIDE DEF e
  <2>7. calls'[s] = e /\ s \in Slots
    BY <2>2 DEF InFlight, Inv, CallInv
  <2>8. e # c
    BY <2>1, <2>5
  <2> QED
    BY Zenon, <2>5, <2>6, <2>7, <2>8, ForcedStep
<1>8. ASSUME NEW s \in Slots, Answer(s) PROVE Goal
  <2>1. s \in InFlight /\ calls[s].at = "done"
    BY <1>8 DEF Answer
  <2>2. ~WriteAnswered(s) /\ ~OpenAnswered(s)
    BY Zenon, <1>1 DEF WriteAnswered, OpenAnswered
  <2> QED
    BY Zenon, <1>6, <1>7, <1>8, <2>1, <2>2 DEF Answer
<1>9. ASSUME NEW s \in Slots, Serve(s) \/ CallFails(s) PROVE FALSE
  BY Zenon, <1>1, <1>9 DEF Serve, CallFails
<1>10. CASE NotRunning \/ Running \/ Render \/ CloseDialog \/ NewFileClick
  BY Zenon, <1>3, <1>10 DEF NotRunning, Running, Render, CloseDialog, NewFileClick
<1>11. ASSUME NEW p \in Paths, ClickFile(p) \/ CreateFile(p) PROVE Goal
  <2>1. Flush(editor, unsaved)
    BY <1>11 DEF ClickFile, CreateFile
  <2>2. next' = next \/ next' = [next EXCEPT !.dirty = FALSE]
    BY Zenon, <1>11 DEF ClickFile, CreateFile, StartOpen
  <2>3. next'.file = next.file
    BY <2>2 DEF Inv, TabInv, NextOK, Screens
  <2> QED
    BY <1>3, <2>1, <2>3
<1>12. ASSUME RefreshListing \/ (\E b \in Uploads : Upload(b)) PROVE FALSE
  BY Zenon, <1>1, <1>12 DEF RefreshListing, Upload
<1>13. ASSUME NEW v \in Values, Type(v) PROVE Goal
  <2> DEFINE x == Text(file.path, v)
             e == [editor EXCEPT !.doc = x]
  <2>1. editor # None /\ editor \in Editors /\ file.path \in Paths
    BY <1>13 DEF Type, NoEditor, Inv, TabInv, PaneOK, EditorOK, FileOK, OpenFiles
  <2>2. Flush(e, TRUE) /\ running' = running /\ next' = [next EXCEPT !.dirty = (x # editor.initial)]
    BY Zenon, <1>13 DEF Type
  <2>3. x \in Contents
    BY <2>1, TextOf
  <2> HIDE DEF x
  <2>4. e \in Editors /\ e.key = editor.key
    BY <2>1, <2>3 DEF Editors
  <2>5. e # None
    BY <2>4, NoneAssumption
  <2> HIDE DEF e
  <2>6. next'.file = next.file
    BY <2>2 DEF Inv, TabInv, NextOK, Screens
  <2>7. running'
    BY <2>1, <2>2 DEF KeptInv, Pane
  <2> QED
    BY <2>2, <2>4, <2>5, <2>6, <2>7, FlushHolds
<1>14. CASE ToolbarSave \/ ModS
  <2>1. Flush(editor, unsaved) /\ next' = [next EXCEPT !.saving = TRUE]
    BY <1>14 DEF ToolbarSave, ModS, Save
  <2>2. next'.file = next.file
    BY <2>1 DEF Inv, TabInv, NextOK, Screens
  <2> QED
    BY <1>3, <2>1, <2>2
<1> QED
  BY Zenon, <1>4, <1>5, <1>8, <1>9, <1>10, <1>11, <1>12, <1>13, <1>14 DEF Next, User

\* A user who waits for each request and its render loses no keystroke to an
\* answer, a failure or a render: one that is not on disk goes only with their
\* consent (openFile's confirm, a new file), with the tab, or with the guest
\* that stops and takes the mounted editor with it.
THEOREM KeystrokesKept == Spec => UnsavedKept
<1>1. Inv /\ Rest /\ KeptInv /\ [Next]_vars =>
        [unsaved /\ ~unsaved' =>
           \/ file' = NoFile \/ ~running' \/ Forced \/ overlap
           \/ editor.doc = editor.initial
           \/ disk[file.path] = editor.doc]_vars
  BY KeystrokesStep
<1> QED
  BY <1>1, AlwaysInv, AlwaysRest, AlwaysKept, PTL DEF Spec, UnsavedKept
=============================================================================
