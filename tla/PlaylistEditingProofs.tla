------------------------ MODULE PlaylistEditingProofs ------------------------
(***************************************************************************)
(* Proofs about PlaylistEditing: which container and which copy each       *)
(* dialog refers to, and that what the dialogs show is there.              *)
(*                                                                         *)
(* The first two properties hold of what the dialogs' windows, shared      *)
(* pointers and raw pointers say; what is in the containers and in the     *)
(* trees is left out of their inductive invariant.  A dialog's pointers    *)
(* are set whenever it is shown, from a dialog that is visible then, and   *)
(* only it takes them back, as it closes.                                  *)
(*                                                                         *)
(* What the trees show is proved on top of it, from lemmas about the       *)
(* container: what an operation adds or removes, and that it leaves every  *)
(* other file where it is.                                                 *)
(***************************************************************************)
EXTENDS PlaylistEditing, SequenceTheorems, TLAPS

Pointers ==
    /\ shown \subseteq {"edit", "playlist", "file", "pause"}
    /\ editing \in [{"edit", "playlist", "file"} -> {"none", "main", "copy"}]
    /\ original \in [{"edit", "file"} -> {"unset", "owned", "deleted", "given"}]

PointersInv == Pointers /\ DialogsEditMain /\ OriginalIsOwned

\* The part of the state the invariant is about, but for the windows.
pointers == <<editing, original>>

-----------------------------------------------------------------------------
\* A step that shows no further dialog and leaves the pointers alone.
LEMMA NothingShown ==
    ASSUME PointersInv, shown' \subseteq shown, UNCHANGED pointers
    PROVE  PointersInv'
BY DEF PointersInv, Pointers, DialogsEditMain, Main, OriginalIsOwned, pointers

\* Accepting or cancelling a dialog gives its pointers up as it is hidden
\* (ok_clicked, cancel_clicked).
LEMMA DialogHidden ==
    ASSUME PointersInv, NEW d \in {"edit", "file"}, d \in shown, shown' = shown \ {d},
           Deletes(d) \/ Resets(d)
    PROVE  PointersInv'
<1> USE DEF PointersInv, Pointers
<1>1. Pointers'
  BY DEF Deletes, Resets
<1>2. \A e \in {"edit", "playlist", "file"} \ {d} : editing'[e] = editing[e]
  BY DEF Deletes, Resets
<1>3. \A e \in {"edit", "file"} \ {d} : original'[e] = original[e]
  BY DEF Deletes, Resets
<1>4. DialogsEditMain'
  <2>1. \A e \in shown' \ {"pause"} : Main(e)'
    BY <1>2 DEF DialogsEditMain, Main
  <2>2. \/ Main("file")' <=> original'["file"] # "given"
        \/ "pause" \notin shown'
    <3>1. CASE d = "edit"
      BY <1>2, <1>3, <3>1 DEF DialogsEditMain, Main
    <3>2. CASE d = "file" /\ Deletes(d)
      BY <3>2 DEF Deletes, DialogsEditMain, Main
    <3>3. CASE d = "file" /\ Resets(d)
      BY <3>3 DEF Resets, Main
    <3> QED
      BY <3>1, <3>2, <3>3
  <2> QED
    BY <2>1, <2>2 DEF DialogsEditMain
<1>5. OriginalIsOwned'
  BY <1>3 DEF OriginalIsOwned
<1> QED
  BY <1>1, <1>4, <1>5

\* Showing Edit_Playlist gives it the main window's container and a copy
\* (Tacktech_Manager::edit_playlist, set_playlist).
LEMMA EditShown ==
    ASSUME PointersInv, edit_playlist
    PROVE  PointersInv'
<1> USE DEF PointersInv, Pointers
<1>1. /\ editing' = [editing EXCEPT !["edit"] = "main"]
      /\ original' = [original EXCEPT !["edit"] = "owned"]
      /\ shown' = shown \cup {"edit"}
  BY DEF edit_playlist, Shares, Copied
<1> QED
  BY <1>1 DEF DialogsEditMain, Main, OriginalIsOwned

\* Showing a small dialog gives it the container of Edit_Playlist, which is
\* visible (add_playlist_slot, add_file_slot).
LEMMA SmallShown ==
    ASSUME PointersInv, add_playlist_slot \/ add_file_slot
    PROVE  PointersInv'
<1> USE DEF PointersInv, Pointers
<1>1. editing["edit"] = "main" /\ "edit" \in shown
  BY DEF add_playlist_slot, add_file_slot, Visible, DialogsEditMain, Main
<1>2. CASE add_playlist_slot
  <2>1. /\ editing' = [editing EXCEPT !["playlist"] = "main"]
        /\ original' = original /\ shown' = shown \cup {"playlist"}
    BY <1>1, <1>2 DEF add_playlist_slot
  <2> QED
    BY <2>1 DEF DialogsEditMain, Main, OriginalIsOwned
<1>3. CASE add_file_slot
  <2>1. /\ editing' = [editing EXCEPT !["file"] = "main"]
        /\ original' = [original EXCEPT !["file"] = "owned"]
        /\ shown' = shown \cup {"file"}
    BY <1>1, <1>3 DEF add_file_slot, Copied
  <2> QED
    BY <2>1 DEF DialogsEditMain, Main, OriginalIsOwned
<1> QED
  BY <1>2, <1>3

\* Edit_Playlist's steps.
LEMMA EditPlaylistPreserves ==
    ASSUME PointersInv, EditPlaylistStep
    PROVE  PointersInv'
<1>1. CASE SelectRow \/ remove_file_slot_file \/ remove_playlist_slot
  BY <1>1, NothingShown
     DEF SelectRow, remove_file_slot_file, remove_playlist_slot, containers, pointers
<1>2. CASE edit_ok_clicked \/ edit_cancel_clicked
  BY <1>2, DialogHidden DEF edit_ok_clicked, edit_cancel_clicked, Visible
<1> QED
  BY <1>1, <1>2, EditShown, SmallShown DEF EditPlaylistStep

\* Add_File_Dialog's and Add_Pause_Dialog's; the latter has no pointers.
LEMMA AddFilePreserves ==
    ASSUME PointersInv, AddFileStep
    PROVE  PointersInv'
<1>1. CASE SelectItem \/ add_filename_slot_none \/ remove_filename_slot
             \/ pause_ok_clicked \/ pause_ok_clicked_nothing
  BY <1>1, NothingShown
     DEF SelectItem, add_filename_slot_none, remove_filename_slot, pause_ok_clicked, PauseClosed,
         pause_ok_clicked_nothing, containers, widgets, pointers
<1>2. CASE add_pause_slot
  <2>1. UNCHANGED pointers /\ shown' = shown \cup {"pause"} /\ "file" \in shown
    BY <1>2 DEF add_pause_slot, Visible, containers, pointers
  <2> QED
    BY <2>1 DEF PointersInv, Pointers, DialogsEditMain, Main, OriginalIsOwned, pointers
<1>3. CASE file_ok_clicked \/ file_cancel_clicked
  BY <1>3, DialogHidden DEF file_ok_clicked, file_cancel_clicked, Visible
<1> QED
  BY <1>1, <1>2, <1>3 DEF AddFileStep

\* The dialogs' pointers are as their windows need them, throughout.
THEOREM PointersInvariant == Spec => []PointersInv
<1>1. Init => PointersInv
  BY DEF Init, PointersInv, Pointers, DialogsEditMain, OriginalIsOwned
<1>2. ASSUME PointersInv, [Next]_vars
      PROVE  PointersInv'
  <2>1. CASE EditPlaylistStep
    BY <1>2, <2>1, EditPlaylistPreserves
  <2>2. CASE AddFileStep
    BY <1>2, <2>2, AddFilePreserves
  <2>3. CASE Adding
    BY <1>2, <2>3, NothingShown
       DEF Adding, add_playlist_ok_clicked, add_filename_slot, pointers
  <2>4. ASSUME NEW d \in {"playlist", "pause"}, cancel_clicked(d)
        PROVE  PointersInv'
    BY <1>2, <2>4, NothingShown DEF cancel_clicked, containers, pointers
  <2>5. CASE UNCHANGED vars
    BY <1>2, <2>5, NothingShown DEF vars, pointers
  <2> QED
    BY <1>2, <2>1, <2>2, <2>3, <2>4, <2>5 DEF Next
<1> QED
  BY <1>1, <1>2, PTL DEF Spec

-----------------------------------------------------------------------------
\* What is edited in a visible dialog reaches the main window, for any number of
\* playlists, files and entries; a pause that is accepted does unless
\* Add_File_Dialog was cancelled under it (set_playlist, cancel_clicked).
THEOREM VisibleDialogsEditMain == Spec => []DialogsEditMain
<1>1. PointersInv => DialogsEditMain
  BY DEF PointersInv
<1> QED
  BY <1>1, PointersInvariant, PTL

\* No sequence of accepting, cancelling, closing and opening again deletes a
\* dialog's copy twice (ok_clicked, cancel_clicked, set_playlist).
THEOREM CopiesAreOwned == Spec => []OriginalIsOwned
<1>1. PointersInv => OriginalIsOwned
  BY DEF PointersInv
<1> QED
  BY <1>1, PointersInvariant, PTL

-----------------------------------------------------------------------------
(* The container: what is in it after each of its operations. *)

Container == [Text -> Seq(Text)]

\* A sequence without one of its entries has the others still.
LEMMA Removed ==
    ASSUME NEW D, NEW s \in Seq(D), NEW k \in DOMAIN s
    PROVE  /\ RemoveAt(s, k) \in Seq(D)
           /\ \A i \in DOMAIN s : i # k => \E j \in DOMAIN RemoveAt(s, k) : RemoveAt(s, k)[j] = s[i]
<1> DEFINE L == Len(s)
           a == SubSeq(s, 1, k - 1)
           z == SubSeq(s, k + 1, L)
           r == RemoveAt(s, k)
<1>1. L \in Nat /\ DOMAIN s = 1 .. L /\ k \in 1 .. L /\ \A i \in 1 .. L : s[i] \in D
  BY LenProperties
<1>2. r = a \o z
  BY DEF RemoveAt
<1> HIDE DEF L, r
<1>3. /\ a \in Seq(D) /\ Len(a) = k - 1
      /\ \A i \in 1 .. (k - 1) : a[i] = s[i]
  <2> DEFINE m == k - 1
  <2>1. m \in Nat /\ m \in Int /\ 1 \in Int /\ \A i \in 1 .. m : s[i] \in D
    BY <1>1
  <2>2. a = SubSeq(s, 1, m)
    OBVIOUS
  <2> HIDE DEF m, a
  <2>3. /\ SubSeq(s, 1, m) \in Seq(D)
        /\ Len(SubSeq(s, 1, m)) = IF 1 <= m THEN m - 1 + 1 ELSE 0
        /\ \A i \in 1 .. m - 1 + 1 : SubSeq(s, 1, m)[i] = s[1 + i - 1]
    BY <2>1, SubSeqProperties
  <2>4. Len(a) = m /\ \A i \in 1 .. m : a[i] = s[i]
    <3>1. \A i \in 1 .. m : i \in 1 .. m - 1 + 1 /\ 1 + i - 1 = i
      BY <2>1
    <3> QED
      BY <2>1, <2>2, <2>3, <3>1
  <2> QED
    BY <2>2, <2>3, <2>4 DEF m
<1>4. /\ z \in Seq(D) /\ Len(z) = L - k
      /\ \A i \in 1 .. (L - k) : z[i] = s[k + i]
  <2> DEFINE m == k + 1
  <2>1. m \in Int /\ L \in Int /\ \A i \in m .. L : s[i] \in D
    BY <1>1
  <2>2. z = SubSeq(s, m, L)
    OBVIOUS
  <2> HIDE DEF m, z
  <2>3. /\ SubSeq(s, m, L) \in Seq(D)
        /\ Len(SubSeq(s, m, L)) = IF m <= L THEN L - m + 1 ELSE 0
        /\ \A i \in 1 .. L - m + 1 : SubSeq(s, m, L)[i] = s[m + i - 1]
    BY <2>1, SubSeqProperties
  <2>4. Len(z) = L - k
    BY <1>1, <2>2, <2>3 DEF m
  <2>5. \A i \in 1 .. (L - k) : i \in 1 .. L - m + 1 /\ m + i - 1 = k + i
    BY <1>1 DEF m
  <2> QED
    BY <2>2, <2>3, <2>4, <2>5
<1> HIDE DEF a, z
<1>5. /\ r \in Seq(D) /\ Len(r) = (k - 1) + (L - k)
      /\ \A i \in 1 .. (k - 1) + (L - k) : r[i] = IF i <= k - 1 THEN a[i] ELSE z[i - (k - 1)]
  BY <1>2, <1>3, <1>4, ConcatProperties
<1>6. ASSUME NEW i \in 1 .. L, i # k
      PROVE  \E j \in 1 .. (L - 1) : r[j] = s[i]
  <2>1. CASE i < k
    <3>1. i \in 1 .. (k - 1) /\ i \in 1 .. (L - 1) /\ i \in 1 .. (k - 1) + (L - k) /\ i <= k - 1
      BY <1>1, <2>1
    <3> QED
      BY <1>3, <1>5, <3>1
  <2>2. CASE i > k
    <3> DEFINE j == i - 1
               h == i - k
    <3>1. /\ j \in 1 .. (L - 1) /\ j \in 1 .. (k - 1) + (L - k) /\ ~(j <= k - 1)
          /\ h \in 1 .. (L - k) /\ j - (k - 1) = h /\ k + h = i
      BY <1>1, <2>2
    <3> HIDE DEF j, h
    <3>2. r[j] = z[h] /\ z[h] = s[i]
      BY <1>4, <1>5, <3>1
    <3> QED
      BY <3>1, <3>2
  <2> QED
    BY <1>1, <1>6, <2>1, <2>2
<1>7. DOMAIN r = 1 .. (L - 1)
  <2>1. DOMAIN r = 1 .. Len(r)
    BY <1>5, LenProperties
  <2> QED
    BY <1>1, <1>5, <2>1
<1>8. \A i \in 1 .. L : i # k => \E j \in 1 .. (L - 1) : r[j] = s[i]
  BY <1>6
<1> QED
  BY <1>1, <1>5, <1>7, <1>8 DEF r

\* Removing a file leaves the others (remove_filename_from_playlist).
LEMMA RemoveLeaves ==
    ASSUME NEW c \in Container, NEW n \in Text, NEW f \in Text
    PROVE  /\ remove_filename_from_playlist(c, n, f) \in Container
           /\ \A m \in Text, g \in Text :
                 Has(c, m, g) /\ ~(m = n /\ g = f)
                     => Has(remove_filename_from_playlist(c, n, f), m, g)
<1> DEFINE r == remove_filename_from_playlist(c, n, f)
           s == c[n]
           k == CHOOSE i \in DOMAIN s : s[i] = f
<1>1. CASE Has(c, n, f)
  <2>1. k \in DOMAIN s /\ s[k] = f /\ s \in Seq(Text)
    BY <1>1 DEF Has, Container
  <2>2. r = [c EXCEPT ![n] = RemoveAt(s, k)]
    BY <1>1 DEF remove_filename_from_playlist
  <2> HIDE DEF k, s
  <2>3. /\ RemoveAt(s, k) \in Seq(Text)
        /\ \A i \in DOMAIN s : i # k => \E j \in DOMAIN RemoveAt(s, k) : RemoveAt(s, k)[j] = s[i]
    BY <2>1, Removed
  <2> HIDE DEF r
  <2>4. r \in Container /\ r[n] = RemoveAt(s, k) /\ \A m \in Text \ {n} : r[m] = c[m]
    BY <2>2, <2>3 DEF Container
  <2>5. ASSUME NEW m \in Text, NEW g \in Text, Has(c, m, g), ~(m = n /\ g = f)
        PROVE  Has(r, m, g)
    <3>1. CASE m = n
      <4>1. PICK i \in DOMAIN s : s[i] = g
        BY <2>5, <3>1 DEF Has, s
      <4>2. i # k
        BY <2>1, <2>5, <3>1, <4>1
      <4> QED
        BY <2>3, <2>4, <3>1, <4>1, <4>2 DEF Has
    <3>2. CASE m # n
      BY <2>4, <2>5, <3>2 DEF Has
    <3> QED
      BY <3>1, <3>2
  <2> QED
    BY <2>4, <2>5 DEF r
<1>2. CASE ~Has(c, n, f)
  BY <1>2 DEF remove_filename_from_playlist
<1> QED
  BY <1>1, <1>2

\* Adding a file puts it in and leaves the others (add_filename).
LEMMA AddLeaves ==
    ASSUME NEW c \in Container, NEW n \in Text, NEW f \in Text
    PROVE  /\ add_filename(c, n, f) \in Container
           /\ Has(add_filename(c, n, f), n, f)
           /\ \A m \in Text, g \in Text : Has(c, m, g) => Has(add_filename(c, n, f), m, g)
<1> DEFINE r == add_filename(c, n, f)
           s == c[n]
           t == Append(s, f)
<1>1. CASE ~Has(c, n, f)
  <2>1. s \in Seq(Text)
    BY DEF Container
  <2>2. r = [c EXCEPT ![n] = t]
    BY <1>1 DEF add_filename
  <2> HIDE DEF s
  <2>3. /\ t \in Seq(Text) /\ Len(t) = Len(s) + 1 /\ Len(s) \in Nat
        /\ DOMAIN s = 1 .. Len(s) /\ DOMAIN t = 1 .. Len(t)
        /\ \A i \in 1 .. Len(s) : t[i] = s[i]
        /\ t[Len(s) + 1] = f
    BY <2>1, AppendProperties, LenProperties
  <2> HIDE DEF t, r
  <2>4. r \in Container /\ r[n] = t /\ \A m \in Text \ {n} : r[m] = c[m]
    BY <2>2, <2>3 DEF Container
  <2>5. Has(r, n, f)
    <3>1. Len(s) + 1 \in DOMAIN t
      BY <2>3
    <3> QED
      BY <2>3, <2>4, <3>1 DEF Has
  <2>6. ASSUME NEW m \in Text, NEW g \in Text, Has(c, m, g)
        PROVE  Has(r, m, g)
    <3>1. CASE m = n
      <4>1. PICK i \in DOMAIN s : s[i] = g
        BY <2>6, <3>1 DEF Has, s
      <4>2. i \in DOMAIN t /\ t[i] = g
        BY <2>3, <4>1
      <4> QED
        BY <2>4, <3>1, <4>2 DEF Has
    <3>2. CASE m # n
      BY <2>4, <2>6, <3>2 DEF Has
    <3> QED
      BY <3>1, <3>2
  <2> QED
    BY <2>4, <2>5, <2>6 DEF r
<1>2. CASE Has(c, n, f)
  BY <1>2 DEF add_filename
<1> QED
  BY <1>1, <1>2

\* Removing a playlist leaves the others (remove_playlist).
LEMMA RemovePlaylistLeaves ==
    ASSUME NEW c \in Container, NEW n \in Text
    PROVE  /\ remove_playlist(c, n) \in Container
           /\ \A m \in Text, g \in Text :
                 Has(c, m, g) /\ m # n => Has(remove_playlist(c, n), m, g)
<1>1. <<>> \in Seq(Text)
  OBVIOUS
<1>2. /\ remove_playlist(c, n) \in Container
      /\ \A m \in Text \ {n} : remove_playlist(c, n)[m] = c[m]
  BY <1>1 DEF remove_playlist, Container
<1> QED
  BY <1>2 DEF Has

\* Replacing a pair loses nothing (pause_changed_slot).
LEMMA ReplaceLeaves ==
    ASSUME NEW c \in Container, name \in Text, NEW f \in Text
    PROVE  /\ PauseReplaced(c, f) \in Container
           /\ \A m \in Text, g \in Text : Has(c, m, g) => Has(PauseReplaced(c, f), m, g)
<1> DEFINE r == remove_filename_from_playlist(c, name, f)
<1>1. /\ r \in Container
      /\ \A m \in Text, g \in Text : Has(c, m, g) /\ ~(m = name /\ g = f) => Has(r, m, g)
  BY RemoveLeaves
<1>2. PauseReplaced(c, f) = add_filename(r, name, f)
  BY DEF PauseReplaced
<1> HIDE DEF r
<1>3. /\ add_filename(r, name, f) \in Container
      /\ Has(add_filename(r, name, f), name, f)
      /\ \A m \in Text, g \in Text : Has(r, m, g) => Has(add_filename(r, name, f), m, g)
  BY <1>1, AddLeaves
<1> QED
  BY <1>1, <1>2, <1>3

-----------------------------------------------------------------------------
(* What the trees show. *)

RowType ==
    row \in {NoRow}
            \cup [type : {"PLAYLIST"}, playlist : Text]
            \cup [type : {"FILENAME"}, playlist : Text, file : Text]

TreeInv == playlist \in Container /\ tree \in Container /\ RowType /\ RowsExist

ListInv ==
    /\ list \in Seq(Text) /\ name \in Text
    /\ item \in 0 .. Len(list)
    /\ touched \in BOOLEAN
    /\ PauseHasItem

IInv == PointersInv /\ TreeInv /\ ListInv /\ process \in {"up", "ended"}

\* Every file that is in a playlist stays there.
Kept == \A m \in Text, g \in Text \ {Empty} : Has(playlist, m, g) => Has(playlist', m, g)

\* What a dialog does to the container either is what it edits or is not seen.
LEMMA EditedLeaves ==
    ASSUME playlist \in Container, NEW d, NEW c \in Container, Edited(d, c),
           \A m \in Text, g \in Text \ {Empty} : Has(playlist, m, g) => Has(c, m, g)
    PROVE  playlist' \in Container /\ Kept
<1>1. playlist' = c \/ playlist' = playlist
  BY DEF Edited
<1>2. CASE playlist' = c
  BY <1>2 DEF Kept
<1>3. CASE playlist' = playlist
  BY <1>3 DEF Kept
<1> QED
  BY <1>1, <1>2, <1>3

\* No step but Edit_Playlist's removals takes a file from a playlist.
LEMMA OthersLeaveFiles ==
    ASSUME IInv, [Next]_vars, ~remove_file_slot_file, ~remove_playlist_slot
    PROVE  playlist' \in Container /\ Kept
<1>1. playlist \in Container /\ name \in Text /\ list \in Seq(Text) /\ item \in 0 .. Len(list)
  BY DEF IInv, TreeInv, ListInv
<1>2. Empty \in Text /\ TypedNames \subseteq Text /\ BrowsedFiles \subseteq Text
  BY PlaylistEditingAssumption
<1>3. CASE UNCHANGED playlist
  BY <1>1, <1>3 DEF Kept
<1>4. CASE remove_filename_slot
  <2> DEFINE c == remove_filename_from_playlist(playlist, Empty, Empty)
  <2>1. /\ c \in Container
        /\ \A m \in Text, g \in Text : Has(playlist, m, g) /\ ~(m = Empty /\ g = Empty) => Has(c, m, g)
    BY <1>1, <1>2, RemoveLeaves
  <2>2. Edited("file", c)
    BY <1>4 DEF remove_filename_slot
  <2> HIDE DEF c
  <2> QED
    BY <1>1, <2>1, <2>2, EditedLeaves
<1>5. CASE pause_ok_clicked
  <2> DEFINE c == PauseReplaced(playlist, list[item])
  <2>1. list[item] \in Text
    <3>1. item \in 1 .. Len(list)
      BY <1>1, <1>5 DEF pause_ok_clicked
    <3> QED
      BY <1>1, <3>1, ElementOfSeq
  <2>2. c \in Container /\ \A m \in Text, g \in Text : Has(playlist, m, g) => Has(c, m, g)
    BY <1>1, <2>1, ReplaceLeaves
  <2>3. Edited("file", c)
    BY <1>5 DEF pause_ok_clicked
  <2> HIDE DEF c
  <2> QED
    BY <1>1, <2>2, <2>3, EditedLeaves
<1>6. ASSUME NEW n \in TypedNames, add_playlist_ok_clicked(n)
      PROVE  playlist' \in Container /\ Kept
  <2> DEFINE c == add_playlist_name(playlist, n)
  <2>1. c \in Container /\ \A m \in Text, g \in Text : Has(playlist, m, g) => Has(c, m, g)
    BY <1>1, <1>2, AddLeaves DEF add_playlist_name
  <2>2. Edited("playlist", c)
    BY <1>6 DEF add_playlist_ok_clicked
  <2> HIDE DEF c
  <2> QED
    BY <1>1, <2>1, <2>2, EditedLeaves
<1>7. ASSUME NEW f \in BrowsedFiles, NEW g \in BrowsedFiles, add_filename_slot(f, g)
      PROVE  playlist' \in Container /\ Kept
  <2> DEFINE b == add_filename(playlist, name, f)
             c == add_filename(b, name, g)
  <2>1. b \in Container /\ \A m \in Text, h \in Text : Has(playlist, m, h) => Has(b, m, h)
    BY <1>1, <1>2, AddLeaves
  <2>2. Edited("file", c)
    BY <1>7 DEF add_filename_slot
  <2> HIDE DEF b
  <2>3. c \in Container /\ \A m \in Text, h \in Text : Has(b, m, h) => Has(c, m, h)
    BY <1>1, <1>2, <2>1, AddLeaves
  <2> HIDE DEF c
  <2> QED
    BY <1>1, <2>1, <2>2, <2>3, EditedLeaves
<1>8. CASE EditPlaylistStep
  BY <1>3, <1>8
     DEF EditPlaylistStep, edit_playlist, SelectRow, add_playlist_slot, add_file_slot,
         edit_ok_clicked, edit_cancel_clicked, containers
<1>9. CASE AddFileStep
  BY <1>3, <1>4, <1>5, <1>9
     DEF AddFileStep, SelectItem, add_filename_slot_none, add_pause_slot,
         pause_ok_clicked_nothing, file_ok_clicked, file_cancel_clicked, containers
<1>10. CASE Adding
  BY <1>6, <1>7, <1>10 DEF Adding
<1>11. ASSUME NEW d \in {"playlist", "pause"}, cancel_clicked(d)
       PROVE  playlist' \in Container /\ Kept
  BY <1>3, <1>11 DEF cancel_clicked, containers
<1> QED
  BY <1>3, <1>8, <1>9, <1>10, <1>11 DEF Next, vars

\* Those removals take what is selected (remove_file_slot, remove_playlist_slot).
LEMMA RemovalsTakeTheRow ==
    ASSUME IInv, remove_file_slot_file \/ remove_playlist_slot
    PROVE  /\ playlist' \in Container
           /\ row # NoRow /\ row.playlist \in Text
           /\ \A m \in Text, g \in Text :
                 Has(playlist, m, g) /\ ~Has(playlist', m, g)
                     => m = row.playlist /\ (row.type = "FILENAME" => row.file = g)
<1>1. playlist \in Container /\ RowType
  BY DEF IInv, TreeInv
<1>2. CASE remove_file_slot_file
  <2> DEFINE c == remove_filename_from_playlist(playlist, row.playlist, row.file)
  <2>1. row.type = "FILENAME" /\ Edited("edit", c)
    BY <1>2 DEF remove_file_slot_file
  <2>2. row # NoRow /\ row.playlist \in Text /\ row.file \in Text
    BY <1>1, <2>1 DEF RowType, NoRow
  <2>3. /\ c \in Container
        /\ \A m \in Text, g \in Text :
              Has(playlist, m, g) /\ ~(m = row.playlist /\ g = row.file) => Has(c, m, g)
    BY <1>1, <2>2, RemoveLeaves
  <2>4. playlist' = c \/ playlist' = playlist
    BY <2>1 DEF Edited
  <2> HIDE DEF c
  <2> QED
    BY <1>1, <2>2, <2>3, <2>4
<1>3. CASE remove_playlist_slot
  <2> DEFINE c == remove_playlist(playlist, row.playlist)
  <2>1. row.type = "PLAYLIST" /\ Edited("edit", c)
    BY <1>3 DEF remove_playlist_slot
  <2>2. row # NoRow /\ row.playlist \in Text
    BY <1>1, <2>1 DEF RowType, NoRow
  <2>3. /\ c \in Container
        /\ \A m \in Text, g \in Text : Has(playlist, m, g) /\ m # row.playlist => Has(c, m, g)
    BY <1>1, <2>2, RemovePlaylistLeaves
  <2>4. playlist' = c \/ playlist' = playlist
    BY <2>1 DEF Edited
  <2> HIDE DEF c
  <2> QED
    BY <1>1, <2>1, <2>2, <2>3, <2>4
<1> QED
  BY <1>2, <1>3

\* The container has types after every step.
LEMMA PlaylistType ==
    ASSUME IInv, [Next]_vars
    PROVE  playlist' \in Container
BY OthersLeaveFiles, RemovalsTakeTheRow

\* A tree that is built anew shows what is there (repopulate_widget).
LEMMA RebuiltShows ==
    ASSUME playlist' \in Container, NEW c, c = playlist', Rebuilt(c)
    PROVE  TreeInv'
<1>1. NoPlaylists \in Container /\ \A n \in Text : NoPlaylists[n] = <<>>
  BY DEF NoPlaylists, Container
<1>2. tree' = playlist' \/ tree' = NoPlaylists
  BY DEF Rebuilt
<1>3. RowType'
  BY DEF Rebuilt, RowType
<1>4. CASE tree' = playlist'
  BY <1>3, <1>4 DEF TreeInv, RowsExist, Has, Container
<1>5. CASE tree' = NoPlaylists
  <2>1. \A n \in Text : DOMAIN tree'[n] = {}
    BY <1>1, <1>5
  <2>2. RowsExist'
    BY <2>1 DEF RowsExist
  <2> QED
    BY <1>1, <1>3, <1>5, <2>2 DEF TreeInv, Container
<1> QED
  BY <1>2, <1>4, <1>5

\* One that is left alone shows nothing that has gone, unless a file has.
LEMMA LeftAloneShows ==
    ASSUME TreeInv, playlist' \in Container, Kept, UNCHANGED tree, RowType',
           "edit" \in shown' => "edit" \in shown
    PROVE  TreeInv'
<1>1. tree' = tree /\ tree \in Container
  BY DEF TreeInv
<1>2. ASSUME "edit" \in shown', NEW n \in Text, NEW i \in DOMAIN tree[n], tree[n][i] # Empty
      PROVE  Has(playlist', n, tree[n][i])
  <2>1. Has(playlist, n, tree[n][i])
    BY <1>2 DEF TreeInv, RowsExist
  <2>2. tree[n][i] \in Text
    <3>1. tree[n] \in Seq(Text)
      BY <1>1 DEF Container
    <3> QED
      BY <3>1
  <2> QED
    BY <1>2, <2>1, <2>2 DEF Kept
<1>3. RowsExist'
  BY <1>1, <1>2 DEF RowsExist
<1> QED
  BY <1>1, <1>3 DEF TreeInv, Container

\* What Edit_Playlist's tree shows, after each step.
LEMMA TreeKept ==
    ASSUME IInv, [Next]_vars
    PROVE  TreeInv'
<1>1. TreeInv /\ RowType /\ playlist' \in Container
  BY PlaylistType DEF IInv, TreeInv
<1>2. CASE remove_file_slot_file \/ remove_playlist_slot
  <2>1. Rebuilt(playlist')
    BY <1>2 DEF remove_file_slot_file, remove_playlist_slot, repopulate_widget
  <2> QED
    BY <1>1, <2>1, RebuiltShows
<1> SUFFICES ASSUME ~remove_file_slot_file, ~remove_playlist_slot
             PROVE  TreeInv'
  BY <1>2
<1>3. Kept
  BY OthersLeaveFiles
<1>4. CASE UNCHANGED <<tree, row>> /\ ("edit" \in shown' => "edit" \in shown)
  BY <1>1, <1>3, <1>4, LeftAloneShows DEF RowType
<1>5. CASE edit_playlist
  <2>1. tree' = playlist' /\ row' = NoRow
    BY <1>5 DEF edit_playlist
  <2> QED
    BY <1>1, <2>1 DEF TreeInv, RowType, RowsExist, Has, Container
<1>6. CASE SelectRow
  <2>1. row' \in Rows /\ UNCHANGED tree /\ shown' = shown /\ tree \in Container
    BY <1>1, <1>6 DEF SelectRow, TreeInv
  <2>2. RowType'
    <3>1. ASSUME NEW n \in Text, row' = [type |-> "PLAYLIST", playlist |-> n]
          PROVE  RowType'
      BY <3>1 DEF RowType
    <3>2. ASSUME NEW e \in Entries(tree),
                 row' = [type |-> "FILENAME", playlist |-> e[1], file |-> tree[e[1]][e[2]]]
          PROVE  RowType'
      <4>5. PICK n \in Text : \E i \in DOMAIN tree[n] : e = <<n, i>>
        BY DEF Entries
      <4>1. PICK i \in DOMAIN tree[n] : e = <<n, i>>
        BY <4>5
      <4>2. tree[n] \in Seq(Text)
        BY <2>1 DEF Container
      <4>3. tree[n][i] \in Text
        BY <4>2
      <4>4. row' = [type |-> "FILENAME", playlist |-> n, file |-> tree[n][i]]
        BY <3>2, <4>1
      <4> QED
        BY <4>3, <4>4 DEF RowType
    <3> QED
      BY <2>1, <3>1, <3>2 DEF Rows
  <2> QED
    BY <1>1, <1>3, <2>1, <2>2, LeftAloneShows
<1>7. CASE edit_ok_clicked \/ edit_cancel_clicked
  <2>1. Rebuilt(playlist) /\ playlist' = playlist
    BY <1>7 DEF edit_ok_clicked, edit_cancel_clicked
  <2> QED
    BY <1>1, <2>1, RebuiltShows
<1>8. CASE EditPlaylistStep
  <2>1. CASE add_playlist_slot \/ add_file_slot
    BY <1>4, <2>1 DEF add_playlist_slot, add_file_slot
  <2> QED
    BY <1>5, <1>6, <1>7, <1>8, <2>1 DEF EditPlaylistStep
<1>9. CASE AddFileStep
  <2>1. CASE file_ok_clicked
    <3>1. Rebuilt(playlist) /\ playlist' = playlist
      BY <2>1 DEF file_ok_clicked
    <3> QED
      BY <1>1, <3>1, RebuiltShows
  <2>2. CASE ~file_ok_clicked
    <3>1. UNCHANGED <<tree, row>> /\ ("edit" \in shown' => "edit" \in shown)
      BY <1>9, <2>2
         DEF AddFileStep, SelectItem, add_filename_slot_none, remove_filename_slot,
             add_pause_slot, pause_ok_clicked, PauseClosed, pause_ok_clicked_nothing, file_cancel_clicked, widgets
    <3> QED
      BY <1>4, <3>1
  <2> QED
    BY <2>1, <2>2
<1>10. ASSUME NEW n \in TypedNames, add_playlist_ok_clicked(n)
       PROVE  TreeInv'
  <2>1. Rebuilt(playlist')
    BY <1>10 DEF add_playlist_ok_clicked, repopulate_widget
  <2> QED
    BY <1>1, <2>1, RebuiltShows
<1>11. ASSUME NEW f \in BrowsedFiles, NEW g \in BrowsedFiles, add_filename_slot(f, g)
       PROVE  TreeInv'
  BY <1>4, <1>11 DEF add_filename_slot
<1>12. ASSUME NEW d \in {"playlist", "pause"}, cancel_clicked(d)
       PROVE  TreeInv'
  BY <1>4, <1>12 DEF cancel_clicked
<1>13. CASE UNCHANGED vars
  BY <1>4, <1>13 DEF vars
<1> QED
  BY <1>8, <1>9, <1>10, <1>11, <1>12, <1>13 DEF Next, Adding

-----------------------------------------------------------------------------
(* What Add_File_Dialog lists. *)

\* A step that leaves the list alone and opens no pause dialog.
LEMMA ListLeftAlone ==
    ASSUME ListInv, UNCHANGED <<list, item, name, touched>>,
           "pause" \in shown' => "pause" \in shown
    PROVE  ListInv'
BY DEF ListInv, PauseHasItem

\* One that leaves it alone, or empties it if neither dialog is visible then.
LEMMA ListHidden ==
    ASSUME ListInv, ListUnlessHidden, shown' \subseteq shown
    PROVE  ListInv'
<1>1. CASE shown' \cap {"file", "pause"} = {}
  <2>1. /\ list' = <<>> /\ item' = 0 /\ name' = Empty /\ touched' = FALSE
        /\ "pause" \notin shown'
    BY <1>1 DEF ListUnlessHidden
  <2>2. <<>> \in Seq(Text) /\ Len(<<>>) = 0 /\ 0 \in 0 .. 0
    OBVIOUS
  <2>3. Empty \in Text
    BY PlaylistEditingAssumption
  <2> QED
    BY <2>1, <2>2, <2>3 DEF ListInv, PauseHasItem
<1>2. CASE shown' \cap {"file", "pause"} # {}
  BY <1>2, ListLeftAlone DEF ListUnlessHidden
<1> QED
  BY <1>1, <1>2

\* What Add_File_Dialog's list holds, after each step.
LEMMA ListKept ==
    ASSUME IInv, [Next]_vars
    PROVE  ListInv'
<1>1. /\ ListInv /\ TreeInv /\ PointersInv /\ playlist \in Container /\ playlist' \in Container
      /\ name \in Text /\ list \in Seq(Text) /\ item \in 0 .. Len(list) /\ touched \in BOOLEAN
  BY PlaylistType DEF IInv, TreeInv, ListInv
<1>2. \A c \in Container, n \in Text : c[n] \in Seq(Text) /\ 0 \in 0 .. Len(c[n])
  <2> SUFFICES ASSUME NEW c \in Container, NEW n \in Text
               PROVE  c[n] \in Seq(Text) /\ 0 \in 0 .. Len(c[n])
    OBVIOUS
  <2>1. c[n] \in Seq(Text)
    BY DEF Container
  <2> QED
    BY <2>1, LenProperties
<1>3. CASE EditPlaylistStep
  <2>1. CASE add_file_slot
    <3>1. /\ name' = RowText /\ list' = playlist[RowText] /\ item' = 0 /\ touched' = TRUE
          /\ row # NoRow
      BY <2>1 DEF add_file_slot
    <3>2. RowText \in Text
      BY <1>1, <3>1 DEF TreeInv, RowType, RowText
    <3> QED
      BY <1>1, <1>2, <3>1, <3>2 DEF ListInv, PauseHasItem
  <2>2. CASE ~add_file_slot
    <3>1. UNCHANGED <<list, item, name, touched>> /\ ("pause" \in shown' => "pause" \in shown)
      BY <1>3, <2>2
         DEF EditPlaylistStep, edit_playlist, SelectRow, add_playlist_slot,
             remove_file_slot_file, remove_playlist_slot, edit_ok_clicked, edit_cancel_clicked
    <3> QED
      BY <1>1, <3>1, ListLeftAlone
  <2> QED
    BY <2>1, <2>2
<1>4. ASSUME list_repopulated, UNCHANGED name, touched' \in BOOLEAN,
             "pause" \notin shown' \/ touched'
      PROVE  ListInv'
  <2>1. list' \in Seq(Text) /\ item' = 0 /\ 0 \in 0 .. Len(list')
    <3>1. list' = playlist'[name] \/ list' = list
      BY <1>4 DEF list_repopulated
    <3>2. 0 \in 0 .. Len(list)
      BY <1>1, LenProperties
    <3> QED
      BY <1>1, <1>2, <1>4, <3>1, <3>2 DEF list_repopulated
  <2> QED
    BY <1>1, <1>4, <2>1 DEF ListInv, PauseHasItem
<1>5. CASE AddFileStep
  <2>1. CASE SelectItem
    <3>1. /\ item' \in DOMAIN list /\ UNCHANGED <<list, name, touched>>
      BY <2>1 DEF SelectItem
    <3>2. item' \in 1 .. Len(list)
      BY <1>1, <3>1, LenProperties
    <3>3. item' \in 0 .. Len(list) /\ item' # 0
      BY <3>2
    <3> QED
      BY <1>1, <3>1, <3>3 DEF ListInv, PauseHasItem
  <2>2. CASE remove_filename_slot \/ pause_ok_clicked_nothing
    BY <1>1, <2>2, ListLeftAlone DEF remove_filename_slot, pause_ok_clicked_nothing, widgets
  <2>3. CASE add_pause_slot
    BY <1>1, <2>3 DEF add_pause_slot, ListInv, PauseHasItem
  <2>4. CASE pause_ok_clicked
    <3>1. shown' = shown \ {"pause"}
      BY <2>4 DEF pause_ok_clicked, PauseClosed
    <3>2. ListUnlessHidden \/ (list_repopulated /\ UNCHANGED <<name, touched>>)
      BY <2>4 DEF pause_ok_clicked
    <3> QED
      BY <1>1, <1>4, <3>1, <3>2, ListHidden
  <2>5. CASE file_ok_clicked \/ file_cancel_clicked
    <3>1. ListUnlessHidden /\ shown' \subseteq shown
      BY <2>5 DEF file_ok_clicked, file_cancel_clicked
    <3> QED
      BY <1>1, <3>1, ListHidden
  <2>6. CASE add_filename_slot_none
    <3>1. list_repopulated /\ touched' = TRUE /\ name' = name
      BY <2>6 DEF add_filename_slot_none
    <3> QED
      BY <1>4, <3>1
  <2> QED
    BY <1>5, <2>1, <2>2, <2>3, <2>4, <2>5, <2>6 DEF AddFileStep
<1>6. ASSUME NEW n \in TypedNames, add_playlist_ok_clicked(n)
      PROVE  ListInv'
  BY <1>1, <1>6, ListLeftAlone DEF add_playlist_ok_clicked
<1>7. ASSUME NEW f \in BrowsedFiles, NEW g \in BrowsedFiles, add_filename_slot(f, g)
      PROVE  ListInv'
  <2>1. list_repopulated /\ touched' = TRUE /\ name' = name
    BY <1>7 DEF add_filename_slot
  <2> QED
    BY <1>4, <2>1
<1>8. ASSUME NEW d \in {"playlist", "pause"}, cancel_clicked(d)
      PROVE  ListInv'
  <2>1. ListUnlessHidden /\ shown' \subseteq shown
    BY <1>8 DEF cancel_clicked
  <2> QED
    BY <1>1, <2>1, ListHidden
<1>9. CASE UNCHANGED vars
  BY <1>1, <1>9, ListLeftAlone DEF vars
<1> QED
  BY <1>3, <1>5, <1>6, <1>7, <1>8, <1>9 DEF Next, Adding

-----------------------------------------------------------------------------
\* What the dialogs show is there, throughout.
LEMMA Invariance == Spec => []IInv
<1>1. Init => PointersInv
  BY DEF Init, PointersInv, Pointers, DialogsEditMain, OriginalIsOwned
<1>2. Init => IInv
  <2> SUFFICES ASSUME Init PROVE IInv
    OBVIOUS
  <2>1. /\ playlist = NoPlaylists /\ tree = NoPlaylists /\ row = NoRow /\ list = <<>>
        /\ name = Empty /\ item = 0 /\ touched = FALSE /\ process = "up" /\ shown = {}
    BY DEF Init
  <2>2. NoPlaylists \in Container /\ <<>> \in Seq(Text) /\ Len(<<>>) = 0 /\ 0 \in 0 .. 0
    BY DEF NoPlaylists, Container
  <2>3. Empty \in Text
    BY PlaylistEditingAssumption
  <2>4. TreeInv
    BY <2>1, <2>2 DEF TreeInv, RowType, RowsExist
  <2>5. ListInv
    BY <2>1, <2>2, <2>3 DEF ListInv, PauseHasItem
  <2> QED
    BY <1>1, <2>1, <2>4, <2>5 DEF IInv
<1>3. ASSUME IInv, [Next]_vars, PointersInv'
      PROVE  IInv'
  <2>1. process' \in {"up", "ended"}
    <3>1. process' = process \/ process' \in {"up", "ended"}
      BY <1>3
         DEF Next, vars, EditPlaylistStep, AddFileStep, Adding, edit_playlist, SelectRow,
             add_playlist_slot, add_file_slot, remove_file_slot_file, AfterErase,
             remove_playlist_slot, edit_ok_clicked, edit_cancel_clicked, SelectItem, add_filename_slot_none,
             add_filename_slot_none, remove_filename_slot, add_pause_slot, pause_ok_clicked,
             pause_ok_clicked_nothing, file_ok_clicked, file_cancel_clicked,
             add_playlist_ok_clicked, add_filename_slot, cancel_clicked
    <3> QED
      BY <1>3, <3>1 DEF IInv
  <2> QED
    BY <1>3, <2>1, TreeKept, ListKept DEF IInv
<1> QED
  BY <1>2, <1>3, PointersInvariant, PTL DEF Spec

\* Names, files, rows and indices are what they are taken for; the item that is
\* selected is one of the list (pause_changed_slot).
THEOREM TypeCorrect == Spec => []TypeOK
<1>1. IInv => TypeOK
  <2> SUFFICES ASSUME IInv PROVE TypeOK
    OBVIOUS
  <2>1. row # NoRow => row.playlist \in Text
    BY DEF IInv, TreeInv, RowType
  <2> QED
    BY <2>1 DEF IInv, PointersInv, Pointers, TreeInv, ListInv, TypeOK, Container
<1> QED
  BY <1>1, Invariance, PTL

\* Every file Edit_Playlist shows is in the playlist it is shown under, for any
\* number of playlists and files (repopulate_widget).
THEOREM WhatIsShownExists == Spec => []RowsExist
<1>1. IInv => RowsExist
  BY DEF IInv, TreeInv
<1> QED
  BY <1>1, Invariance, PTL

\* The pause dialog has an item to change as long as the file list is left alone
\* (add_pause_slot, pause_changed_slot).
THEOREM PauseAlwaysHasItem == Spec => []PauseHasItem
<1>1. IInv => PauseHasItem
  BY DEF IInv, ListInv
<1> QED
  BY <1>1, Invariance, PTL

\* A file leaves a playlist only if it, or its playlist, is selected for removal
\* (pause_changed_slot, remove_file_slot, remove_playlist_slot).
THEOREM OnlyRemovalLosesFiles == Spec => FilesVanishOnlyByRemoval
<1> DEFINE A == \A n \in Text : \A f \in Text \ {Empty} :
                   Has(playlist, n, f) /\ ~Has(playlist', n, f)
                       => SelectedInTree(n, f) \/ SelectedInList(n, f)
<1>1. ASSUME IInv, [Next]_vars
      PROVE  A
  <2>1. CASE remove_file_slot_file \/ remove_playlist_slot
    <3>1. "edit" \in shown
      BY <2>1 DEF remove_file_slot_file, remove_playlist_slot, Visible
    <3>2. /\ row # NoRow
          /\ \A m \in Text, g \in Text :
                 Has(playlist, m, g) /\ ~Has(playlist', m, g)
                     => m = row.playlist /\ (row.type = "FILENAME" => row.file = g)
      BY <1>1, <2>1, RemovalsTakeTheRow
    <3> QED
      BY <3>1, <3>2 DEF SelectedInTree
  <2>2. CASE ~remove_file_slot_file /\ ~remove_playlist_slot
    BY <1>1, <2>2, OthersLeaveFiles DEF Kept
  <2> QED
    BY <2>1, <2>2
<1> HIDE DEF A
<1>2. Spec => [][A]_vars
  BY <1>1, Invariance, PTL DEF Spec
<1> QED
  BY <1>2 DEF A, FilesVanishOnlyByRemoval
=============================================================================
