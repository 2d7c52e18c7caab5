# Tacktech: a TLA+ model of the manager, the server, the displays and what goes between them

Tacktech shows playlists on a set of displays. A *manager* (a Qt program) edits
groups of displays and playlists, and sends an upload to the *server*
(`Artemis_Server`, Boost.Asio). The server passes each display's part of the
upload on to that display. The *display* (`Tactek_Display`, Qt and libVLC)
stores the files it is sent and plays them one after the other, for ever.

    manager --port of server.ini, XML + ";"--> server --port 9001, XML, then close--> display

The repository has no tests and no protocol document. What a module says is
taken from the code; the comments of the code and `TODO.txt` are used only as
statements to hold the code against.

## 1. Inventory

| Component | Source | State | Operations |
|---|---|---|---|
| Display receiver | `Tactek_Display/src/Recieve_Data.cpp` | one socket pointer `client`, one text buffer `data` | slots `acceptConnection`, `startRead`, `recieve_complete` |
| Display playback | `Tactek_Display/src/Tactek_Display.cpp`, `Playlist.cpp` | the two lists of the playlist, `current_index_of_queue`, the VLC player, the files on disk | `handle_recieved_data`, `check_media_state`, `play_next_media_in_queue` |
| Server pool | `Artemis_Server/src/Artemis_Server.cpp` | `io_service`, `acceptor`, `new_connection`, ten threads | `start_accept`, `handle_accept`, `handle_stop`, `run` |
| Server connection | `Artemis_Server_Connection.cpp` | socket, `streambuf` | `start`, `handle_read` |
| Request handler | `Artemis_Request_Handler.cpp` | none that outlives a request | `handle_request`, `generate_queries`, `handle_upload` |
| Upload to a display | `Artemis_Network_Sender_Connection.cpp` | an `io_service` and a socket per upload | `connect`, `start_write`, `do_connect`, `do_write`, `handle_connect`, `handle_write` |
| Manager main window | `Tacktech_Manager/src/Tacktech_Manager.cpp` | groups, playlists, the group-to-playlist list | `edit_group`, `group_editing_complete`, `edit_playlist`, `scheduled_item_added` |
| Manager group dialogs | `Edit_Group.cpp`, `Add_Computer_Dialog.cpp`, `Add_Group_Dialog.cpp` | a copy of the groups, a tree | add, remove, ok, cancel |
| Manager playlist dialogs | `Edit_Playlist.cpp`, `Add_File_Dialog.cpp`, `Add_Playlist_Dialog.cpp`, `Add_Pause_Dialog.cpp`, `Select_Playlist_Dialog.cpp` | shared pointers to the main window's playlists, raw pointers to copies, trees | add, remove, pause, ok, cancel |
| Manager upload | `Send_Data.cpp`, `Start_Send_Data_Thread.cpp`, `Upload_Data*.cpp` | the request's text, a thread and a socket per upload | `send_data_to_server`, `run`, `get_binary_file` |
| Not in any program | `Artemis_Network_Sender.*`, `Artemis_SQL_Handler.*`, `TCPServer.*`, `Tactek_Display/src/main.cpp`; `Send_Data` of the display is built and never used | | |
| Third party | libb64, pugixml | the codec's state between blocks; the tree of a text, the writer's buffer | encode, decode; load, child, print |

How they interact. The manager opens a connection per upload and ends its text
with `;`, at which the server's `async_read_until` completes. The server runs the
request on the pool's thread that read it: for each computer of the request, in
order, it starts a thread that makes a connection to the display, writes that
computer's XML and shuts the connection down, and waits for that thread. The
display takes *the end of the connection* for the end of the message. Inside the
display the receiver's signal `data_recieved` calls the playback's slot directly,
on the one event loop there is; VLC plays on threads of its own and is looked at
once a second. In the server, ten threads take handlers from one queue.

What is hard about it:

- **Overlapping connections at the display.** Every slot works on the *one*
  `client` and the *one* `data`, whatever connection it is called for.
- **The write that does not wait for the connect.** `connect` and `start_write`
  only post; whether the write finds a connected socket is up to the reactor.
- **Requests that block the pool.** Uploads are joined without a time limit, on
  the threads that also accept, read and handle the stop signal.
- **Exceptions on the wrong thread.** `resolve` throws on the upload's thread,
  `lexical_cast` in a Qt slot.
- **A cyclic queue that grows while it is being played**, driven by a timer that
  samples the state of a player it does not control.
- **A delimiter that is not one.** The server reads up to the first `;`, which is
  also the last character of every XML entity, and hands on what it has by then.
- **Results nobody looks at**: of `document.load`, so that half a text is carried
  out as far as it goes; of `open`, so that a missing file enters the playlist.
- **Containers edited through copies and through pointers** by dialogs of which
  several may be open, in any order.

`PROJECT.json` lists the hazards line by line, with the properties that answer
each of them, and the parts that are not modelled with the reason.

What makes each component correct:

- *receiver*: nothing is handed on twice or out of order however connections
  overlap; what is lost belongs to a superseded connection; without overlap each
  connection yields one message, and that message is its text;
- *playback*: every entry is opened once per lap, nothing is cut short, and the
  queue keeps moving;
- *server*: the accept chain neither breaks nor forks, one handler at a time per
  connection, a stop cuts no request short, and each request is dealt with down
  to its last computer unless a stop, a name or a display that hangs is in the way;
- *upload*: one completion, one shutdown, nothing that outlives the object, the
  whole payload if the first address accepts;
- *request*: one without an entity is handed on whole and carried out for every
  computer; of one that is cut, everything is right but its very last item, or,
  where the last computer has no items left, its address;
- *file data*: what is stored is the file, or a beginning of it, however texts
  and blocks are cut;
- *manager*: the trees show what is edited, every visible dialog edits the same
  container (but for a pause dialog whose `Add_File_Dialog` was cancelled), nothing
  vanishes that was not selected for removal, and what a user confirmed is what
  the main window has afterwards (which is not so for groups).

## 2. The modules

| Module | Models |
|---|---|
| `RecieveData` | the receiver, with its peers as environment |
| `PayloadMailbox` | abstract: one message per sender, with that sender's text |
| `DisplayPlayer` | playback: messages in, the timer, VLC |
| `DisplayLaps` | `DisplayPlayer` with a history of what was shown |
| `Display` | receiver and playback on one event loop, and what the XML parser makes of mixed texts |
| `NetworkSender` | one upload of the server |
| `ArtemisServer` | acceptor, pool, connections, requests; an upload is an interval |
| `RequestFraming` | one request's text from the manager's thread to `handle_read` |
| `XmlTree` | pugixml as it is used here: parsing of a text that may be cut, lookup, printing |
| `Requests` | `RequestFraming` and `XmlTree` composed: from an upload to the items of each display |
| `Base64` | libb64's encoder and decoder |
| `FileData` | a file through the encoder, pugixml's buffered writer and the decoder |
| `GroupEditing` | the group dialogs, the main window's groups, the scheduled upload |
| `PlaylistEditing` | the playlist dialogs and the main window's playlists |
| `DisplayProofs` | theorems about the receiver, the mailbox, the playback and the whole display |
| `XmlTreeProofs` | theorems about parsing and printing, and lemmas about parser runs and lists of nodes |
| `RequestsProofs` | theorems about `RequestFraming` and `Requests` |
| `FileDataProofs`, `NetworkSenderProofs`, `ArtemisServerProofs`, `GroupEditingProofs`, `PlaylistEditingProofs` | theorems about the module of that name |
| `MC...` | the values of the constants for TLC |

Correspondence to the code, where it is not one action per function:

**RecieveData.** A slot is one action since all slots run on one event loop. The
bytes of a connection are a stream, so three counters per connection say how much
the peer has written (`sent`), how much has reached the socket's read buffer
(`buffered`) and how much has been taken out of it (`consumed`). `startRead(c)` is
the slot called because of connection *c*: it moves *c*'s `buffered` and empties
the buffer of `client`. `recieve_complete(c)` is possible after an orderly close
once all bytes of *c* are buffered, and after a reset at any time, which is when
Qt emits `readChannelFinished`. Qt and the kernel are external.

**DisplayPlayer.** `handle_recieved_data` is one action for the whole message: the
loop stops at the first item whose pause does not convert, after its file has been
stored, and the exception ends the process (`alive`). The number of items handled
is the only *n* that satisfies `HandledItems`. VLC's states are those playback
goes through; `OpenStates` is what the player may report right after `open`,
which libVLC does asynchronously. File contents are not modelled, only which
files exist.

**Display** gives each connection a text of atoms of `XmlTree`: a start tag,
items, an end tag. What `tacktech.child("Computer")` and its `Item` children are
is computed by the parser for *any* sequence the receiver can produce from
overlapping connections: a stray end tag ends the parse, a start tag inside an
open element nests.

**XmlTree.** A text is a sequence of atoms, parts of tags and pieces of character
data; `ParseAtom` is one turn of pugixml's loop, with the state it is in within a
tag (`at`). An error keeps the tree built so far, as `load` does and its callers
never notice. The last character of a text is always overwritten (`EndOfText`),
wherever the text ends. What is lost is the last letter of a name, so that the
element is found by nobody; that of a piece; the quote or the `<` behind a value,
which then has what is left over of its last entity in it; or the `>` of a tag,
which alone is made up for. `Damaged` is the name, or a piece of the value, that
is other than it was written. `PrintNode` prints an element without contents as an
empty tag.

**NetworkSender.** `queue` is the queue of the upload's own `io_service`, so the
handlers run one at a time. `accepts` and `posix` are chosen at the start: the
addresses on which something listens, and whether a write behind a pending
connect waits (reactor) or fails at once. `StartWrite` is one step of
`async_write`'s composed operation.

**ArtemisServer.** A handler that does two visible things, such as
`handle_accept`, has a step for each, with the pool's other threads in between.
`StartUpload`, `UploadReturns` and `UploadThrows` are one pass of the loop in
`generate_queries`; the inside of the upload is `NetworkSender`, whose
`UploadReturns` is what justifies the fairness of the action of that name here.
`Hung` displays accept and never read.

**RequestFraming.** `run` of the manager's thread is one action per call that
waits: `run_write`, `run_disconnect`, `run_end`. `delivered` is how many atoms
leave the manager; when the second wait has run out the socket is destroyed and
`delivered` may be anything from what the server has `taken` on. `ReadsSome` is
one read of `async_read_until`, of at most `Space` atoms; `full` says that it
filled its space, in which case no byte of the `streambuf` is left to be a NUL and
`HandedOn` may go on into what is behind it (`Overreads`).

**Requests** states a request's text in the format of `get_xml_upload` (which is
commented out, but which server and display parse) and applies
`generate_queries` and the display's reading of an upload as operators:
the server and the display run the same parser on what the other side printed.

**Base64** and **FileData.** A character of the code is the value it stands for, so
that the tables are left out, and shifts and masks are `\div` and `%`. The
coroutines' steps are the record fields `step`, `result`, `plainchar`,
`stepcount`. `FileData` has one action per turn of a loop: a block read and
encoded, a piece written, a block decoded. `FileIn` adds the NUL that
`std::ends` writes, which an empty file does not get, because extracting nothing
from it has set the stream's failbit.

**GroupEditing.** `Edit_Group` gets a new copy whenever it is opened; `holds` says
of the two small dialogs whether the copy they hold is still that one. A row of
the tree is a pair of the multimap, each with *all* computers of its group, so
that a group of two computers has two rows of two. `group_editing_complete` looks
at the main window's groups, which no dialog has.

**PlaylistEditing.** `editing` is what each dialog's shared pointer is to,
`original` the state of the copy each makes through a raw pointer: owned, deleted
by ok, or given to the shared pointer by cancel. A slot that calls
`selectedItems().at(0)` with nothing selected, or increments an iterator it has
erased, may end the process. A container keeps, per playlist, its files in their
order there, because which is first decides what `remove_file_slot` increments.

`Group_Container`, `Group_Playlist_Container` and `Playlist_Container` belong to a
library (Tacktech_Common) that is not in the repository. They are modelled from
their uses here and marked external in the map: a multimap from group to computer
with an empty computer for a new group, and a multimap from playlist to pairs of
file and pause that refuses a file it has.

In the modules a choice of the code that a property depends on is an operator of
its own, preceded by the form an ordinary slip would give it (`OnlyCurrentSignals`
before `Signals`). The specification never uses those; they are there to see that
each property notices such a slip.

## 3. What is model-checked

| Run | Instance | Shows |
|---|---|---|
| `display_overlap` | 2 uploads of 2 items to one display | `InOrderAtMostOnce`, `LossMeansSuperseded`, `NoItemTwice`: overlap loses bytes of superseded connections and mixes messages, but repeats and reorders nothing, neither bytes nor items; `ClosedIsAnnounced`: every close is announced, whichever connection is current |
| `display_isolated` | 2 uploads of 2 items, one at a time | `MailboxSpec` (refinement), `IntactMessages`, `UploadsAreWhole`, and `UploadIsShown` from the first byte to the screen |
| `player_live` | an unwritable file, a malformed pause | `EveryEntryIsOpened` until `OneBadFileStopsDisplay` |
| `laps_shares` | 4 entries, 3 laps | `OncePerLap`, `NothingCutShort` |
| `laps_pause` | 3 entries | the comment's promise of a pause, violated: see below |
| `sender` | 3 addresses, 3 writes, both socket layers | `OnlyFirstEndpointIsServed`, `WholeIfFirstAccepts`, `ShutdownOnce`, `UploadReturns` |
| `server` | 2 threads, 2 requests of 2 computers, one display that may hang, one name that may not resolve, 1 failing accept, a stop signal | `AcceptChain`, `OneHandlerPerConnection`, `StopCutsNoRequestShort`; `EveryRequestServed`, to its last computer, with exactly its excuses, `StopEndsServer`, `HungDisplaysTakeThePool`, `OneBadNameEndsServer` |
| `requests` | 3 uploads of 2 computers, two of them with an entity | `PlainRequestsAreWhole`, `PlainRequestsAreCarriedOut`, `OnlyTheLastIsDamaged`, `RequestEnds` |
| `codec` | files of up to 12 bytes, block sizes 4 and 5, writer buffers of 1, 4 and 40 | `FileArrives`, `WithinBuffers` |
| `groups` | 2 groups, 2 computers, 3 pairs | `TypeOK` (what is selected is in the tree), `TreeShowsEdited`, `NothingIsListed` |
| `groups_reach` | the same | the comment's promise that edited groups are listed, violated: see below |
| `playlists` | 2 names, 2 files, 2 pairs | `TypeOK`, `DialogsEditMain`, `OriginalIsOwned`, `RowsExist`, `PauseHasItem`, `FilesVanishOnlyByRemoval` |

The type invariants of the receiver, playback, the upload, the server and the
framing are proved for all values of the constants (section 4), so that no run
repeats them.

Some of these state what the code does although nobody can have wanted it:
`OneBadFileStopsDisplay`, `OnlyFirstEndpointIsServed`, `HungDisplaysTakeThePool`,
`OneBadNameEndsServer` and `NothingIsListed`. They are there because the good
properties beside them hold only up to exactly these cases, and because a repair
should turn them false on purpose.

The models have more behaviour that cannot have been wanted, which the properties
make room for without stating it:

- `remove_filename_slot` removes nothing a user selected, although the comment
  above it says that it "Removes selected filename from the playlist"
  (`Add_File_Dialog.cpp:124`): it asks the container for items that know neither
  playlist nor file. `FilesVanishOnlyByRemoval` would hold of a repaired slot too.
- A pause that is accepted after `Add_File_Dialog` was cancelled is lost: cancel
  turns the dialog's pointer to the discarded copy, which `pause_changed_slot` then
  changes (`Add_File_Dialog.cpp:202-212`, `:235`). `DialogsEditMain` says exactly when.
- Accepting a pause for a list that was rebuilt since looks at the first of no
  selected items, which is undefined; `PauseHasItem` holds of a list that was not.
- `scheduled_item_added` looks at the selected group in a tree that never has one.

**The findings.** `PauseHonoured` is the comment above `play_next_media_in_queue`:
the output pauses before an entry whose pause is not 0. The code gives the timer
of the pause no slot and opens the entry in the next statement; the run finds an
entry with a pause opened at the first timeout after the previous media ended.

`GroupsReachMain` is the comment above `group_editing_complete`: it adds the
groups that were added and removes those that were removed. `Edit_Group` works on
a deep copy (its own comment says it is given a pointer), so that the slot
compares the main window's groups, which nobody edited, with its list; the run
finds a group added, accepted and not listed. `NothingIsListed` is the
consequence: in this build, in which reading the saved groups is commented out,
the main window never lists a group, and nothing that starts from one can happen.

**Bounds, and why they are enough.** Two connections overlap in every way two can;
a text of a start tag, two items and an end tag can be cut and mixed before,
between and after items. A lap that is prolonged before, at and after its end
needs a playlist of two and an append; `MaxEntries`, `MaxLaps` and `MaxErrors`
bound what would otherwise grow for ever (`Receive`, `LapsOpen`, `AcceptFails`,
and what is added in the manager's dialogs). Three addresses give the connect a
first, a middle and a last one. Two threads are the least with which handlers run
concurrently and with which one can be blocked and the other not; the pool of ten
adds repetitions of these. A request has no entity, one in the first item, or one
in the last item of the last computer; reads of up to 26 atoms (`Space`) cut it
everywhere in one read or several, and one that fills its space comes in both
kinds, with a `;` and without. The codec's line is 8 characters instead of 72, so
that short files fill a line; the buffers of 4 and 5 bytes are not and are a
multiple of the groups the codec works in; the contents of the shorter files have
bytes of all, of no and of some bits. `FileDataAssumption` excludes buffers of less
than 4 bytes: libb64's use 4096, and the wrapper's 2*N characters would not hold
the line breaks and padding of less. Two groups with two computers, and a
container of three pairs, have a group with one, with two and with no pairs
beside each other, and every dialog current and superseded; a playlist of two
names includes the empty one, which is what `remove_filename_slot` asks for.

Deadlock is not checked, since all these systems may legitimately come to rest
(no peer writes, the process has ended, the bound on laps is reached, a file has
been stored).

**Fairness.** Weak, and only for what the code's schedulers do: a Qt event loop
serves each of its notifications; the timer fires; the threads of a pool and the
one of an upload run handlers that are ready; an operation of the kernel that can
complete does. Of VLC it is assumed that a media comes to an end or to an error.
Nothing is assumed of peers, managers, the operator or a connection's loss: they
may stop at any time. In `NetworkSender` a connect is answered or times out, and
a display that stays connected reads; where it does not (`Hung`), `ArtemisServer`
shows the consequences. In `RequestFraming` the thread goes on, because its waits
are limited, and the server's read is served; nobody has to start a request.

## 4. What is proved

TLAPS proves these for every value of the constants.

*The receiver* (`DisplayProofs`; assumption: `RecieveDataAssumption`, the null
pointer is no connection and a payload has at least one chunk). `InOrderAtMostOnce`
is not inductive: that the next read does not repeat a chunk depends on where the
reads of that connection stand. `IInv` adds
`consumed <= buffered <= sent` per connection, that what `data` and the announced
messages hold of a connection lies below its `consumed`, that a connection in the
backlog has had nothing read and occurs there once, and that `client` is set once
anything is open. `CurrentDrained` is proved on the way: it needs
that a connection starts with an empty buffer when it becomes the client.
`LossMeansSuperseded` needs `FinishedFin` beside it: a connection finished in good
order has all that was sent of it in the buffer, of which the client's is empty.
Theorems: `TypeCorrect`, `NoRepetition`, `ClientIsDrained`, `LossOnlyWhenSuperseded`.

*The mailbox* (`DisplayProofs`). With `Isolated`, the additional
invariant `OneLive` says that at most one connection is live, that it is the
client from its accept on, and that `data` is exactly what has been consumed of
it. From it follow `MessagesAreIntact` and, with the refinement mapping of
`RecieveData!Mailbox` (a connection is taken when it is finished, the delivered
messages are those announced), `ImplementsMailbox`: accept and read are stutters,
`recieve_complete` is a delivery.

*Playback* (`DisplayProofs`). `OncePerLap` is inductive together with the
types: an append joins the lap under way with no showings to make up or with one
still to come, according to its position; opening an entry raises its count
exactly when the index passes it, and a wrap raises all expected counts at once.
`NothingCutShort` needs `ShownWhole`: the player is idle only before the first
entry is opened, so that a timeout replaces only what has ended.
Theorems: `LapsTypeCorrect`, `EveryEntryOncePerLap`, `NoneIsCutShort`.

*The whole display* (`DisplayProofs`, on the lemmas of `XmlTreeProofs`). The items a
message yields are those the parser finds in whatever texts overlapping
connections were mixed to, so that this is a proof about the parser on any
sequence of chunks. `Leads(p, text, q)` says that it comes from *p* to *q* on a
text; runs are joined and split (`XmlTreeProofs`), and between two chunks it is in
contents or has failed (`Between`), so that each chunk adds at most one element,
an `Item` with that chunk for its text if it is one (`Adds`). `Traces` keeps, for the
tree so far, the chunk each item came from, in increasing order. Carried over to
the playlist this is `PlaylistTraced`: each entry has a chunk it was made from, which
was consumed before what is in `data`, no chunk is used twice and those of a
connection are used in order (`EntriesAreTraced`). `NoItemTwice`
speaks of files instead of chunks, and follows if files tell the items of all
uploads apart (`FilesTellApart`, which holds of the instance of the runs, and
without which the property would be about other things): `NoneTwice`.
`UploadsAreWhole` is proved from `HeldInv`: once a connection of an isolated
display has ended in good order, some stretch of the playlist is its upload, and
later messages only append. What starts it is that the one message of such a
connection is its text, and that the parser makes its items of exactly that
text (`WholeUploads`).

*The upload* (`NetworkSenderProofs`; assumption: at least one address and one
write). The queue of the upload's `io_service` never holds more than two handlers,
one of the connect and one of the write. `IInv` is the disjunction of the upload's
phases (`Idle`, `Opening`, `Waiting`, `Sending`, `Failing`, `Completed`,
`Returned`), each with what the queue may hold and what the socket is then, and
what has been written in it. The properties are read off the phases:
`ShutdownOnce` needs that a phase with an open connect is not `Returned`,
`OnlyFirstEndpointIsServed` that a second connect follows only in `Failing` and
`Completed`. Theorems: `TypeCorrect`, `OnlyFirst`, `WholeUpload`, `OneShutdown`.

*The server* (`ArtemisServerProofs`; assumption: `ArtemisServerAssumption`, a finite set of
threads and a list of computers per connection). The two counting properties say nothing of where a queued
handler came from, so that `IInv` adds it: an accept handler's connection was
accepted and has not been read (`QueueOK`), hence `handle_accept` starts the only
read it will ever have; `Chain` and `Handling` are the counts as case distinctions
over singletons, which the provers can follow where they cannot count. That
`served` never passes the number of computers rests on `UploadsInRange`, which
rests in turn on no two threads serving one connection. `BegunIsHeld` (a request
begun is done or in a thread's hands) and `ExitJoined` (`run` returned only when
all threads had) give `StopCutsNoRequestShort`. Theorems: `TypeCorrect`,
`AcceptChainHolds`, `OneHandlerPerConnectionHolds`, `StopCutsNone`.

*Parsing and printing* (`XmlTreeProofs`; no assumption). A tree is any sequence of
elements of which the first has the least depth and no other is more than one
deeper than the one before it (`IsTree`). Behind the start tag of element *k* and the end
tags that follow it, the parser has the first *k* elements, and of those open are the
ones around element *k + 1* (`AfterElements`): by induction on *k*, parsing undoes
printing (`ParseUndoesPrint`). If the text is cut, it ends in a start tag, in data
or in an end tag, and its last character is lost; what is parsed of it are the
first elements of the tree, all but the last one as they were printed, and the
last one at its depth and with its name or with one that no text has (`CutRead`).
That it is only the last one rests on an end tag changing nothing that was read
(`ClosingRead`), and on the < of one being lost only behind the data of the
last element (`InnerReadOn`, `EndsWell`). If the text goes on, the elements of the tree stay
as they are, and nothing is put below them (`ReadBeyond`).

*Requests* (`RequestsProofs`; assumptions: `RequestFramingAssumption`, the delimiter is
one of the atoms with a `;`, and `RequestsAssumption`, an upload is a list of
computers with items of three values). `FramingInv` adds to the types that nothing leaves the
manager before the delimiter was appended, and that what was handed on begins
with what the `streambuf` held, in which there was a `;`. In a text without
another one it must be the delimiter, which is last. `RequestsInv` adds what was
made of it. The text that was handed on is then the beginning of an upload's
text, or all of it with something behind it; `ReadsAs` says what is parsed of either.
`generate_queries` finds the computers that begin in what was parsed
and have their names (`NamedAre`, `ComputersFound`), and prints each with what is
below it, which for all but the last is what `ComputerNodes` says (`QueriesFound`).
The display parses that text again, by the same theorems, and finds in it the items
of which all but the last are as they were meant; if it finds any, something follows
the computer's own element, which is then as it was meant as well, its address
included (`ItemsOfCut`). Theorems: `FramingTypeCorrect`,
`PlainRequestsAreWholeTheorem`, `PlainRequestsAreCarriedOutTheorem`,
`OnlyTheLastIsDamagedTheorem`.

*The codec* (`FileDataProofs`). The coroutines are recursive functions, on a text of
any length, so that this needs inductions: over natural numbers only, which are
drawn from the library's theorem about well-founded relations, since that is stated of sets
and the induction theorems proper, which take an operator, cannot be cited.
`Carried` relates the states of the encoder and of the decoder in the middle of a text:
the decoder has given back the file but for the bits that are on the way. It gives
`RoundTrip` (what decodes to a file is its code, for every file), and, with the lemmas
that a code can be cut anywhere and processed in blocks, the invariant that
follows the file through the encoder, the writer's buffer and the decoder:
`Encoding`, `Printing` and `Decoding` say per phase what is still ahead.
Theorems: `RoundTrip`, `WhatIsStoredIsTheFile`, `NoBufferOverruns`.

*The playlist dialogs* (`PlaylistEditingProofs`).
`DialogsEditMain` and `OriginalIsOwned` are inductive together with the types of
the pointers (`PointersInv`): a dialog's pointers are set whenever it is shown, from one
that is visible then, and cancel takes back its own only, as it closes; that of the file
dialog is given away exactly while it is cancelled and not opened again, which is
when the pause dialog works for nothing. On top of
it, `IInv` has what is in the containers and the trees (`TreeInv`, `ListInv`). Its
proof rests on lemmas about the container: what an operation adds or removes,
and that it leaves every other file where it is (`Kept`), from which
`FilesVanishOnlyByRemoval` follows too. Theorems: `VisibleDialogsEditMain`,
`CopiesAreOwned`, `TypeCorrect`, `WhatIsShownExists`, `PauseAlwaysHasItem`,
`OnlyRemovalLosesFiles`.

*The group dialogs* (`GroupEditingProofs`). `NothingIsListed` is inductive as it
stands: nothing in order is nothing. The types need it, since a copy of the main
window's groups is known to be a container because it is empty. `IInv` adds what
the windows say of each other (`ControlOK`), that the tree has every pair edited
and, unless something was removed since it was built, no other (`TreeOK`), and that
what is selected is in the tree (`SelectedIn`). That a container's keys can be
listed in their order at all is proved by induction on how many they are.
Theorems: `TypeCorrect`, `WhatIsEditedIsShown`, `NothingIsEverListed`.

Only model-checked: everything with fairness (`ClosedIsAnnounced`,
`EveryEntryIsOpened`, `OneBadFileStopsDisplay`, `UploadIsShown`, `UploadReturns`,
`RequestEnds`, `EveryRequestServed`, `StopEndsServer`, `HungDisplaysTakeThePool` and
`OneBadNameEndsServer`), which is out of the prover's reach. Every invariant and every action property of
the passing runs is a theorem as well. The two findings are violations.

## 5. What is not modelled

*Unreachable in this build.* The main window's groups are empty from the start,
because the reading of saved variables is commented out, and stay so
(`NothingIsListed`). What starts from a listed group is therefore left out:
`show_playlist_selection` with `Select_Playlist_Dialog`, `start_upload`, and the
upload that a scheduled item would make. The loop of `group_editing_complete`
that erases entries while it counts is modelled, and never has one to erase.

*Not there to model.* `get_xml_upload` is commented out (`TODO.txt:25`): an upload
has no contents, and the texts of `Requests` are of the format it had and the other programs still
read. `store_variables` and its counterparts are commented out as well, so that
nothing is persisted and there is no recovery. Some slots are connected to nothing
(`bytes_written`), some functions never called (`handle_write` of the server's
connections, `do_close`).

*Abstracted.* Pauses of playlist entries in the manager; a dialog closed by its
window frame, which is a cancel without the slot; the selection Qt may make of its
own accord when a row is deleted; the two sockets the manager has on one
descriptor, of which `RequestFraming` follows the thread's; a read behind the
buffer that ends the server; XML's white space, attributes beyond one per element,
encodings, comments, CDATA and declarations, which these programs do not use.

*Left out.* Sources no program contains (`Artemis_Network_Sender`,
`Artemis_SQL_Handler`, `TCPServer`, the demo player), `Send_Data` of the display,
which nothing calls; reading the configuration and filling the server's containers
once before it listens, which no request reads; layout and logging.

More than half of the repository's lines are pugixml (11,600), of which the
programs use a few hundred, and forms, generated or unbuilt sources; the models
cover what is left but for the items above.
