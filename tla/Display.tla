------------------------------ MODULE Display ------------------------------
(***************************************************************************)
(* A whole display: the receiver of RecieveData and the playback of        *)
(* DisplayPlayer on one event loop, joined by the signal data_recieved,    *)
(* whose slot parses the text and runs inside recieve_complete.            *)
(*                                                                         *)
(* The text of connection c is a Computer element: its first chunk is the  *)
(* start tag, its last chunk the end tag, and the chunks between them are  *)
(* the Items of Payload[c].  What pugixml makes of a text in which several *)
(* connections are mixed is found with the parser of XmlTree.              *)
(***************************************************************************)
EXTENDS RecieveData, DisplayPlayer, XmlTree

CONSTANT Payload    \* the items each connection's peer sends

ASSUME DisplayAssumption ==
    /\ Payload \in [Conn -> Seq(Item)]
    /\ \A c \in Conn : Len(Payload[c]) + 2 = Chunks

displayVars == <<vars, playerVars>>

\* The text of a chunk; an Item is named by its chunk.
AtomsOf(chunk) ==
    CASE chunk[2] = 1 -> <<Open("Computer"), Gt>>
      [] chunk[2] = Chunks -> <<Lt, Close("Computer")>>
      [] OTHER -> <<Open("Item"), Gt, Text(chunk), Lt, Close("Item")>>

ItemOf(chunk) == Payload[chunk[1]][chunk[2] - 1]

\* The Items of the first Computer of a text.
ComputerItems(text) ==
    LET tree  == Parse(FlattenSeq([k \in DOMAIN text |-> AtomsOf(text[k])]))
        items == InOrder(Children(tree, FirstChild(tree, {0}, "Computer"), "Item"))
    IN  [i \in DOMAIN items |-> ItemOf(tree[items[i]].text[1])]

-----------------------------------------------------------------------------
DisplayInit == Init /\ PlayerInit

\* The slots of a process that has ended do not run.
Receiving ==
    /\ \/ PeerStep
       \/ alive /\ (acceptConnection \/ \E c \in Conn : startRead(c))
    /\ UNCHANGED playerVars

data_recieved ==
    /\ alive
    /\ \E c \in Conn : recieve_complete(c)
    /\ \E items \in {ComputerItems(data)} : handle_recieved_data(items)

Playing ==
    /\ check_media_state \/ MediaStep
    /\ UNCHANGED vars

DisplayNext == Receiving \/ data_recieved \/ Playing

DisplaySpec == DisplayInit /\ [][DisplayNext]_displayVars

DisplayFairSpec ==
    /\ DisplaySpec
    /\ WF_displayVars(acceptConnection /\ Receiving)
    /\ \A c \in Conn : WF_displayVars(startRead(c) /\ Receiving)
    /\ \A c \in Conn : WF_vars(alive /\ recieve_complete(c))
    /\ WF_displayVars(check_media_state /\ Playing)
    /\ WF_displayVars(MediaStep /\ Playing)

-----------------------------------------------------------------------------
\* The entries a whole, well-formed upload of connection c adds.
Uploaded(c) == [i \in DOMAIN Payload[c] |-> EntryOf(Payload[c][i])]

\* The items of a connection are told apart by their files in the instances.
EntriesOf(c) ==
    {i \in DOMAIN playlist : \E a \in DOMAIN Payload[c] : playlist[i].file = Payload[c][a].file}

\* However connections overlap, no item of an upload enters the playlist twice,
\* and those that enter keep the order they have in the upload.
NoItemTwice ==
    \A c \in Conn : \A i, j \in EntriesOf(c) :
        i < j => \E a, b \in DOMAIN Payload[c] :
                    /\ a < b
                    /\ playlist[i].file = Payload[c][a].file
                    /\ playlist[j].file = Payload[c][b].file

\* When uploads do not overlap, one that was written whole and closed in good
\* order is in the playlist whole and unbroken, as soon as it was announced.
UploadsAreWhole ==
    Isolated /\ alive =>
        \A c \in Conn :
            status[c] = "finished" /\ peer[c] = "fin" /\ sent[c] = Chunks =>
                \E k \in 0 .. Len(playlist) :
                    /\ k + Len(Payload[c]) <= Len(playlist)
                    /\ SubSeq(playlist, k + 1, k + Len(Payload[c])) = Uploaded(c)

\* End to end: when uploads do not overlap, every file can be stored and no
\* pause is malformed, each item of an upload that was written whole and closed
\* in good order is shown sooner or later.
UploadIsShown ==
    \A c \in Conn : \A a \in DOMAIN Payload[c] :
        (Live(c) /\ peer[c] = "fin" /\ sent[c] = Chunks)
            ~> (~alive \/ (current # 0 /\ playlist[current].file = Payload[c][a].file))
=============================================================================
