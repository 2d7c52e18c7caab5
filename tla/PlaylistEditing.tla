--------------------------- MODULE PlaylistEditing ---------------------------
(***************************************************************************)
(* The manager's playlists: the main window's container and the dialogs    *)
(* Edit_Playlist, Add_Playlist_Dialog, Add_File_Dialog and                 *)
(* Add_Pause_Dialog that change it.                                        *)
(*                                                                         *)
(* The dialogs are windows of their own, shown with show(), so that the    *)
(* user may work in any of those that are open in any order.  Each slot    *)
(* runs to its end on the event loop and is one action.  All four trees    *)
(* select one item at most, which is the default the .ui files leave.      *)
(*                                                                         *)
(* Playlist_Container is not part of the repository; it is modelled from   *)
(* its uses: a multimap from a playlist's name to pairs of file and pause, *)
(* in the order of the names and, within one, of insertion; a new playlist *)
(* has one pair with an empty file; no file comes twice in a playlist.     *)
(* The pauses are left out: what changes one takes the pair out and puts   *)
(* another in at the end of the playlist.                                  *)
(***************************************************************************)
EXTENDS Integers, Sequences, SequencesExt, FiniteSets

CONSTANTS
    Text,           \* strings, by their order: names of playlists and of files
    TypedNames,     \* those the user may type as a playlist's name
    BrowsedFiles,   \* those the file browser may return
    MaxEntries      \* bound: pairs in the container

Empty == 0          \* the empty string, which sorts first

ASSUME PlaylistEditingAssumption ==
    /\ Text \subseteq Nat /\ Empty \in Text
    /\ TypedNames \subseteq Text
    /\ BrowsedFiles \subseteq Text \ {Empty}
    /\ MaxEntries \in Nat

VARIABLES
    playlist,   \* the main window's container
    shown,      \* the dialogs that are visible
    editing,    \* what each dialog's shared pointer is to
    original,   \* each dialog's raw pointer to the copy it made of the container
    tree,       \* the rows of Edit_Playlist's tree
    row,        \* the one that is selected
    list,       \* the rows of Add_File_Dialog's tree
    name,       \* the playlist Add_File_Dialog was opened for
    item,       \* the index of its selected row, or 0
    touched,    \* history: the list was rebuilt under the open pause dialog
    process     \* "up", or "ended" by an undefined access

containers == <<playlist, editing, original>>
widgets == <<shown, tree, row, list, name, item, touched>>
vars == <<playlist, editing, original, shown, tree, row, list, name, item,
          touched, process>>

NoRow == [type |-> "none"]

-----------------------------------------------------------------------------
(* Playlist_Container: a name without pairs is not in the multimap. *)

NoPlaylists == [n \in Text |-> <<>>]

Has(c, n, f) == \E i \in DOMAIN c[n] : c[n][i] = f

add_filename(c, n, f) == IF Has(c, n, f) THEN c ELSE [c EXCEPT ![n] = Append(@, f)]

remove_filename_from_playlist(c, n, f) ==
    IF Has(c, n, f)
    THEN [c EXCEPT ![n] = RemoveAt(c[n], CHOOSE i \in DOMAIN c[n] : c[n][i] = f)]
    ELSE c

add_playlist_name(c, n) == add_filename(c, n, Empty)
remove_playlist(c, n) == [c EXCEPT ![n] = <<>>]

\* The pair the multimap's begin() is at.
IsFirst(c, n, f) ==
    /\ \A m \in Text : m < n => c[m] = <<>>
    /\ c[n] # <<>> /\ c[n][1] = f

Entries(c) == UNION {{<<n, i>> : i \in DOMAIN c[n]} : n \in Text}

-----------------------------------------------------------------------------
Init ==
    /\ playlist = NoPlaylists
    /\ shown = {}
    /\ editing = [d \in {"edit", "playlist", "file"} |-> "none"]
    /\ original = [d \in {"edit", "file"} |-> "unset"]
    /\ tree = NoPlaylists
    /\ row = NoRow
    /\ list = <<>>
    /\ name = Empty
    /\ item = 0
    /\ touched = FALSE
    /\ process = "up"

Visible(d) == process = "up" /\ d \in shown

\* A dialog that cancelled works on the copy it had made; what is in that copy
\* then, nobody sees.
Main(d) == editing[d] = "main"
Edited(d, c) == playlist' = (IF Main(d) THEN c ELSE playlist)

-----------------------------------------------------------------------------
(* Edit_Playlist. *)

\* What is in the trees of hidden dialogs, nobody sees either: it is left out,
\* but for the list that an open pause dialog still refers to.
Rebuilt(c) ==
    /\ tree' = (IF "edit" \in shown' /\ Main("edit") THEN c ELSE NoPlaylists)
    /\ row' = NoRow
ListUnlessHidden ==
    IF shown' \cap {"file", "pause"} = {}
    THEN list' = <<>> /\ item' = 0 /\ name' = Empty /\ touched' = FALSE
    ELSE UNCHANGED <<list, item, name, touched>>

\* Before it, a slot that leaves the tree as it is.
leave_widget == UNCHANGED <<tree, row>>
repopulate_widget == Rebuilt(playlist')

\* set_playlist makes a copy each time; before it, one that keeps the copy it
\* has, and one that edits a copy as Edit_Group does.
CopyOnce(d) == IF original[d] = "unset" THEN "owned" ELSE original[d]
Copied(d) == "owned"
TakesCopy == "copy"
Shares == "main"

\* The main window's menu, also while the dialog is open.
edit_playlist ==
    /\ process = "up"
    /\ editing' = [editing EXCEPT !["edit"] = Shares]
    /\ original' = [original EXCEPT !["edit"] = Copied("edit")]
    /\ tree' = playlist /\ row' = NoRow
    /\ shown' = shown \cup {"edit"}
    /\ UNCHANGED <<playlist, list, name, item, touched, process>>

Rows == {[type |-> "PLAYLIST", playlist |-> n] : n \in {m \in Text : tree[m] # <<>>}}
        \cup {[type |-> "FILENAME", playlist |-> e[1], file |-> tree[e[1]][e[2]]] :
                 e \in Entries(tree)}

SelectRow ==
    /\ Visible("edit")
    /\ row' \in Rows \ {row}
    /\ UNCHANGED <<containers, shown, tree, list, name, item, touched, process>>

add_playlist_slot ==
    /\ Visible("edit")
    /\ editing' = [editing EXCEPT !["playlist"] = editing["edit"]]
    /\ shown' = shown \cup {"playlist"}
    /\ UNCHANGED <<playlist, original, tree, row, list, name, item, touched, process>>

\* text(0) of the selected row is the name of a playlist, or of a file.
RowText == IF row.type = "PLAYLIST" THEN row.playlist ELSE row.file

add_file_slot ==
    /\ Visible("edit") /\ row # NoRow
    /\ name' = RowText
    /\ editing' = [editing EXCEPT !["file"] = editing["edit"]]
    /\ original' = [original EXCEPT !["file"] = Copied("file")]
    /\ list' = playlist[RowText] /\ item' = 0
    /\ touched' = TRUE
    /\ shown' = shown \cup {"file"}
    /\ UNCHANGED <<playlist, tree, row, process>>

\* The loop over the multimap removes the pair in its first pass; if that is
\* the one the iterator is at, incrementing the iterator is undefined.
AfterErase(n, f) == IF IsFirst(playlist, n, f) THEN {"up", "ended"} ELSE {"up"}

remove_file_slot_file ==
    /\ Visible("edit") /\ row.type = "FILENAME"
    /\ LET n == row.playlist
           f == row.file
       IN  /\ Edited("edit", remove_filename_from_playlist(playlist, n, f))
           /\ process' \in AfterErase(n, f)
    /\ UNCHANGED <<editing, original, shown, list, name, item, touched>>
    /\ repopulate_widget

\* remove_playlist_slot, also by way of remove_file_slot.
remove_playlist_slot ==
    /\ Visible("edit") /\ row.type = "PLAYLIST"
    /\ Edited("edit", remove_playlist(playlist, row.playlist))
    /\ UNCHANGED <<editing, original, shown, list, name, item, touched, process>>
    /\ repopulate_widget

\* The accepted dialog deletes its copy, the cancelled one makes it the object
\* its own shared pointer is to: the main window's pointer stays where it is.
Deletes(d) ==
    /\ original' = [original EXCEPT ![d] = "deleted"]
    /\ UNCHANGED editing
Resets(d) ==
    /\ original' = [original EXCEPT ![d] = "given"]
    /\ editing' = [editing EXCEPT ![d] = "copy"]

edit_ok_clicked ==
    /\ Visible("edit")
    /\ Deletes("edit")
    /\ shown' = shown \ {"edit"}
    /\ Rebuilt(playlist)
    /\ UNCHANGED <<playlist, list, name, item, touched, process>>

edit_cancel_clicked ==
    /\ Visible("edit")
    /\ Resets("edit")
    /\ shown' = shown \ {"edit"}
    /\ Rebuilt(playlist)
    /\ UNCHANGED <<playlist, list, name, item, touched, process>>

-----------------------------------------------------------------------------
(* Add_Playlist_Dialog. *)

\* A name that is there already gives a message, and the dialog stays.
add_playlist_ok_clicked(n) ==
    /\ Visible("playlist")
    /\ playlist[n] = <<>>
    /\ Edited("playlist", add_playlist_name(playlist, n))
    /\ shown' = shown \ {"playlist"}
    /\ repopulate_widget
    /\ UNCHANGED <<editing, original, list, name, item, touched, process>>

-----------------------------------------------------------------------------
(* Add_File_Dialog and Add_Pause_Dialog. *)

\* The list of the playlist is built anew, which clears the selection; before
\* it, one that selects the same row again.
list_repopulated_selected ==
    list' = (IF Main("file") THEN playlist'[name] ELSE list) /\ item' = item
list_repopulated ==
    list' = (IF Main("file") THEN playlist'[name] ELSE list) /\ item' = 0

SelectItem ==
    /\ Visible("file")
    /\ item' \in DOMAIN list \ {item}
    /\ UNCHANGED <<containers, shown, tree, row, list, name, touched, process>>

\* The browser, which is modal, returns one file or several, of which two are
\* enough: they are one if f is g.
add_filename_slot(f, g) ==
    /\ Visible("file")
    /\ Edited("file", add_filename(add_filename(playlist, name, f), name, g))
    /\ list_repopulated
    /\ touched' = TRUE
    /\ UNCHANGED <<editing, original, shown, tree, row, name, process>>

\* If the browser is cancelled it returns none, and the list is built all the same.
add_filename_slot_none ==
    /\ Visible("file")
    /\ UNCHANGED <<containers, shown, tree, row, name, process>>
    /\ list_repopulated
    /\ touched' = TRUE

\* The items selected are copied into items that know no playlist and no file:
\* what is removed is the empty file of the playlist with the empty name.  The
\* list is left as it is.
remove_filename_slot ==
    /\ Visible("file") /\ item # 0
    /\ Edited("file", remove_filename_from_playlist(playlist, Empty, Empty))
    /\ UNCHANGED <<editing, original, widgets, process>>

add_pause_slot ==
    /\ Visible("file") /\ item # 0
    /\ shown' = shown \cup {"pause"}
    /\ touched' = FALSE
    /\ UNCHANGED <<containers, tree, row, list, name, item, process>>

\* pause_changed_slot replaces the pair; it takes the item that is selected by
\* then.  Before it, the two calls in the other order.
AddThenRemove(c, f) ==
    remove_filename_from_playlist(add_filename(c, name, f), name, f)
PauseReplaced(c, f) ==
    add_filename(remove_filename_from_playlist(c, name, f), name, f)

\* emit pause_changed, and then close; before it, without the close.
StaysOpen == shown
PauseClosed == shown \ {"pause"}

pause_ok_clicked ==
    /\ Visible("pause") /\ item # 0
    /\ Edited("file", PauseReplaced(playlist, list[item]))
    /\ shown' = PauseClosed
    /\ IF shown' \cap {"file", "pause"} = {} THEN ListUnlessHidden
       ELSE list_repopulated /\ UNCHANGED <<name, touched>>
    /\ UNCHANGED <<editing, original, tree, row, process>>

\* selectedItems().at(0) of an empty list.
pause_ok_clicked_nothing ==
    /\ Visible("pause") /\ item = 0
    /\ process' = "ended"
    /\ UNCHANGED <<containers, widgets>>

\* emit filelist_changed, to which Edit_Playlist::repopulate_widget is connected.
file_ok_clicked ==
    /\ Visible("file")
    /\ Deletes("file")
    /\ shown' = shown \ {"file"}
    /\ Rebuilt(playlist) /\ ListUnlessHidden
    /\ UNCHANGED <<playlist, process>>

file_cancel_clicked ==
    /\ Visible("file")
    /\ Resets("file")
    /\ shown' = shown \ {"file"}
    /\ ListUnlessHidden
    /\ UNCHANGED <<playlist, tree, row, process>>

\* add_playlist_dialog and add_pause_dialog cancelled: they are closed.
cancel_clicked(d) ==
    /\ Visible(d)
    /\ shown' = shown \ {d}
    /\ ListUnlessHidden
    /\ UNCHANGED <<containers, tree, row, process>>

-----------------------------------------------------------------------------
EditPlaylistStep ==
    \/ edit_playlist \/ SelectRow \/ add_playlist_slot \/ add_file_slot
    \/ remove_file_slot_file \/ remove_playlist_slot
    \/ edit_ok_clicked \/ edit_cancel_clicked

AddFileStep ==
    \/ SelectItem \/ add_filename_slot_none \/ remove_filename_slot \/ add_pause_slot
    \/ pause_ok_clicked \/ pause_ok_clicked_nothing
    \/ file_ok_clicked \/ file_cancel_clicked

\* The bound on the container is on what is added to it.
Adding ==
    \/ \E n \in TypedNames : add_playlist_ok_clicked(n)
    \/ \E f, g \in BrowsedFiles : add_filename_slot(f, g)

Next ==
    \/ EditPlaylistStep \/ AddFileStep
    \/ Adding /\ Cardinality(Entries(playlist')) <= MaxEntries
    \/ \E d \in {"playlist", "pause"} : cancel_clicked(d)

Spec == Init /\ [][Next]_vars

-----------------------------------------------------------------------------
\* The types; an item that is selected is one of the list, whose index at(0)
\* relies on.
TypeOK ==
    /\ playlist \in [Text -> Seq(Text)]
    /\ tree \in [Text -> Seq(Text)]
    /\ shown \subseteq {"edit", "playlist", "file", "pause"}
    /\ editing \in [{"edit", "playlist", "file"} -> {"none", "main", "copy"}]
    /\ original \in [{"edit", "file"} -> {"unset", "owned", "deleted", "given"}]
    /\ row # NoRow => row.playlist \in Text
    /\ list \in Seq(Text)
    /\ name \in Text
    /\ item \in 0 .. Len(list)
    /\ touched \in BOOLEAN
    /\ process \in {"up", "ended"}

\* Whatever dialogs are open, and in whichever order they were opened, closed
\* and cancelled, each that has a container and is visible edits the main
\* window's (set_playlist of the dialogs).  The pause dialog has none: what is
\* accepted in it goes where Add_File_Dialog's pointer is to.  That is the main
\* window's container too, after that dialog was accepted and closed as well, but
\* for one case: if it was cancelled with the pause dialog open and was not opened
\* again since, the pause goes to the discarded copy and is lost.
DialogsEditMain ==
    /\ \A d \in shown \ {"pause"} : Main(d)
    /\ "pause" \in shown => (Main("file") <=> original["file"] # "given")

\* A visible dialog has a copy that is its own, so that accepting it deletes the
\* copy once and cancelling it hands on an object that exists: no sequence of
\* accepting, cancelling, closing and opening again deletes one twice
\* (set_playlist, ok_clicked, cancel_clicked).
OriginalIsOwned == \A d \in {"edit", "file"} : d \in shown => original[d] = "owned"

\* Every file Edit_Playlist shows is still in the playlist it is shown under,
\* although Add_File_Dialog changes the container beside it and Edit_Playlist
\* is not told of it before that dialog is accepted.
RowsExist ==
    "edit" \in shown =>
        \A n \in Text : \A i \in DOMAIN tree[n] :
            tree[n][i] # Empty => Has(playlist, n, tree[n][i])

\* As long as the file list is left alone while the pause dialog is open, that
\* dialog has an item to change, however often it is used in a row; its slot
\* clears the selection (pause_changed_slot, add_pause_slot).
PauseHasItem == "pause" \in shown /\ ~touched => item # 0

\* What a user asks to be removed: the row selected in Edit_Playlist, or the item
\* selected in Add_File_Dialog, which stays open (remove_file_slot,
\* remove_playlist_slot, and what the comment above remove_filename_slot says).
SelectedInTree(n, f) ==
    /\ "edit" \in shown /\ row # NoRow /\ row.playlist = n
    /\ row.type = "FILENAME" => row.file = f
SelectedInList(n, f) ==
    /\ "file" \in shown /\ shown' = shown
    /\ item # 0 /\ name = n /\ list[item] = f

\* A file leaves a playlist only if it or its playlist is selected for removal
\* in one of the two dialogs.  In particular a change of its pause, which takes
\* the pair out and puts it in again, never loses a file, whatever was done in
\* the other dialogs since it was begun, nor does any dialog's cancel
\* (pause_changed_slot, cancel_clicked).
FilesVanishOnlyByRemoval ==
    [][\A n \in Text : \A f \in Text \ {Empty} :
          Has(playlist, n, f) /\ ~Has(playlist', n, f)
              => SelectedInTree(n, f) \/ SelectedInList(n, f)]_vars
=============================================================================
