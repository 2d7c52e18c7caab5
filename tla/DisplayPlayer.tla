--------------------------- MODULE DisplayPlayer ---------------------------
(***************************************************************************)
(* Playback on a display: classes Tactek_Display and Playlist.             *)
(*                                                                         *)
(* A message of the network side is a list of items, each a file, its      *)
(* contents and a pause.  handle_recieved_data stores the files and        *)
(* appends an entry per item to the playlist.  Once a second a timer looks *)
(* at the state of the VLC player and, when the current media has ended,   *)
(* opens the next entry of the playlist, cyclically.                       *)
(*                                                                         *)
(* All slots run on the main thread's event loop, so each is one action.   *)
(* VLC (its thread) and the file system are the environment; the states of *)
(* the VLC player are those of libvlc_state_t that playback goes through.  *)
(***************************************************************************)
EXTENDS Integers, Sequences

CONSTANTS
    File,           \* file names
    Unwritable,     \* those the display cannot create in its directory
    Messages,       \* the lists of items a peer may send
    OpenStates,     \* what VLC may report right after open()
    MaxEntries      \* bound: no message is taken that could exceed it

Pauses == {"absent", "zero", "positive", "malformed"}

Item == [file : File, pause : Pauses]

ASSUME DisplayPlayerAssumption ==
    /\ Unwritable \subseteq File
    /\ Messages \subseteq Seq(Item)
    /\ OpenStates \subseteq {"Idle", "Opening"} /\ OpenStates # {}
    /\ MaxEntries \in Nat

VARIABLES
    alive,                      \* the process has not been ended by an exception
    playlist,                   \* m_filepath and m_pause, zipped by get_playlist
    current_index_of_queue,     \* 0-based index of the entry to open next
    media,                      \* the VLC player's state
    current,                    \* 1-based entry VLC was last told to open, or 0
    disk                        \* the files that exist on the display

playerVars == <<alive, playlist, current_index_of_queue, media, current, disk>>

\* An entry of the playlist: a file and the pause as an integer, of which only
\* its being zero matters.
Entry == [file : File, pause : {"zero", "positive"}]

-----------------------------------------------------------------------------
PlayerInit ==
    /\ alive = TRUE
    /\ playlist = <<>>
    /\ current_index_of_queue = 0
    /\ media = "Idle"
    /\ current = 0
    /\ disk = {}

-----------------------------------------------------------------------------
(* The network side: handle_recieved_data and handle_new_file_added. *)

\* An absent pause counts as "0"; lexical_cast throws on anything that is not
\* an integer, and nothing between the slot and main catches the exception.
Castable(item) == item.pause # "malformed"

EntryOf(item) ==
    [file |-> item.file,
     pause |-> IF item.pause = "positive" THEN "positive" ELSE "zero"]

\* The loop over the items comes to n of them: all, or those before the first
\* one whose pause does not convert.
HandledItems(items, n) ==
    /\ \A i \in 1 .. n : Castable(items[i])
    /\ n < Len(items) => ~Castable(items[n + 1])

\* The files written: the pause of an item is converted only after its file has
\* been stored, so that of the first bad item is stored as well.
StoredFiles(items, n) ==
    {items[i].file : i \in 1 .. (IF n < Len(items) THEN n + 1 ELSE n)} \ Unwritable

\* The result of opening and writing a file is not looked at: the entry is
\* added to the playlist whether or not its file could be stored.
\* The whole message is handled in one slot call; new_file_added is connected
\* directly, so that its slot runs inside the loop.
handle_recieved_data(items) ==
    /\ \E n \in 0 .. Len(items) :
          /\ HandledItems(items, n)
          /\ disk' = disk \cup StoredFiles(items, n)
          /\ playlist' = playlist \o [i \in 1 .. n |-> EntryOf(items[i])]
          /\ alive' = (n = Len(items))
    /\ UNCHANGED <<current_index_of_queue, media, current>>

-----------------------------------------------------------------------------
(* The timer: check_media_state, play_next_media_in_queue, open_and_play. *)

\* The states in which the timer moves on (0 and 6 of libvlc_state_t).
\* Before them, what forgetting one state, or adding one, would make of them.
IdleOnly == {"Idle"}
AlsoError == {"Idle", "Ended", "Error"}
AlsoOpening == {"Idle", "Ended", "Opening"}
AdvanceStates == {"Idle", "Ended"}

\* The wrap is made when the next entry is looked up, not when the last one was
\* opened: an entry appended meanwhile is found.
WrapEarly(index) == IF index + 1 >= Len(playlist) THEN 0 ELSE index
WrapIndex(index) == IF index = Len(playlist) THEN 0 ELSE index

\* An entry with a pause is opened at once, as is one without: the single-shot
\* timer of the pause has no slot to call.
open_and_play(index) ==
    /\ media' \in OpenStates
    /\ current' = index + 1

play_next_media_in_queue ==
    /\ Len(playlist) > 0
    /\ LET index == WrapIndex(current_index_of_queue) IN
          /\ open_and_play(index)
          /\ current_index_of_queue' = index + 1
    /\ UNCHANGED <<alive, playlist, disk>>

\* One timeout of update_timer that opens a media; a timeout in any other state
\* of the player, or with an empty playlist, changes nothing.
check_media_state ==
    /\ alive
    /\ media \in AdvanceStates
    /\ play_next_media_in_queue

-----------------------------------------------------------------------------
(* VLC. *)

CurrentFile == playlist[current].file

\* Playback of what was opened starts, ends, or fails if there is no such file.
MediaOpening ==
    /\ alive /\ media = "Idle" /\ current # 0
    /\ media' = "Opening"
    /\ UNCHANGED <<alive, playlist, current_index_of_queue, current, disk>>

MediaPlaying ==
    /\ alive /\ media = "Opening" /\ CurrentFile \in disk
    /\ media' = "Playing"
    /\ UNCHANGED <<alive, playlist, current_index_of_queue, current, disk>>

MediaError ==
    /\ alive /\ media = "Opening" /\ CurrentFile \notin disk
    /\ media' = "Error"
    /\ UNCHANGED <<alive, playlist, current_index_of_queue, current, disk>>

MediaEnded ==
    /\ alive /\ media = "Playing"
    /\ media' = "Ended"
    /\ UNCHANGED <<alive, playlist, current_index_of_queue, current, disk>>

MediaStep == MediaOpening \/ MediaPlaying \/ MediaError \/ MediaEnded

-----------------------------------------------------------------------------
Receive ==
    /\ alive
    /\ \E items \in Messages :
          /\ Len(playlist) + Len(items) <= MaxEntries
          /\ handle_recieved_data(items)

PlayerNext == Receive \/ check_media_state \/ MediaStep

PlayerSpec == PlayerInit /\ [][PlayerNext]_playerVars

\* The timer keeps firing, and every media comes to an end or fails.
PlayerFairness == WF_playerVars(check_media_state) /\ WF_playerVars(MediaStep)

PlayerFairSpec == PlayerSpec /\ PlayerFairness

-----------------------------------------------------------------------------
MediaState == {"Idle", "Opening", "Playing", "Ended", "Error"}

\* The types; the index of the queue and the entry shown stay in the playlist.
PlayerTypeOK ==
    /\ alive \in BOOLEAN
    /\ playlist \in Seq(Entry)
    /\ current_index_of_queue \in 0 .. Len(playlist)
    /\ media \in MediaState
    /\ current \in 0 .. Len(playlist)
    /\ disk \subseteq File

HasBadFile == \E i \in DOMAIN playlist : playlist[i].file \in Unwritable

\* Unless the playlist gets an entry whose file could not be stored or a pause
\* was malformed, every entry, also one appended in the middle of a lap, is
\* opened sooner or later, again and again (play_next_media_in_queue).
EveryEntryIsOpened ==
    \A i \in 1 .. MaxEntries :
        (i <= Len(playlist)) ~> (current = i \/ HasBadFile \/ ~alive)

\* One entry whose file could not be stored is enough to stop the display: VLC
\* reports an error for it, a state on which the timer never moves on, and all
\* the other entries are not shown again either.  Only a VLC that is still idle
\* at a timeout now and then can have the entry skipped in every lap.
OneBadFileStopsDisplay ==
    HasBadFile ~> ([](media = "Error" \/ ~alive) \/ []<>(media = "Idle"))
=============================================================================
