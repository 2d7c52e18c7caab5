------------------------------ MODULE Requests ------------------------------
(***************************************************************************)
(* From a manager's request to the items of each display: the framing of   *)
(* RequestFraming, what Artemis_Request_Handler makes of the text it is    *)
(* handed, and what Tactek_Display makes of the text it is sent, both with *)
(* the parser of XmlTree.                                                  *)
(*                                                                         *)
(* The request is one upload: computers with an address and items, each    *)
(* item a sequence of values: file name, data and pause.                   *)
(***************************************************************************)
EXTENDS RequestFraming, XmlTree

CONSTANTS
    Value,          \* the pieces of values
    Uploads         \* what managers upload: [ip, items] per computer

Fields == <<"Filename", "File_Data", "Pause">>

Item == [DOMAIN Fields -> Seq(Value)]
Computer == [ip : Seq(Value), items : Seq(Item)]

ASSUME RequestsAssumption == Uploads \subseteq Seq(Computer)

VARIABLES
    upload,         \* what the request stands for
    uploads         \* the addresses and texts handle_upload was called with

requestVars == <<framingVars, upload, uploads>>

-----------------------------------------------------------------------------
(* The text of an upload, in the format of get_xml_upload. *)

Element(n, d, a, t) == [name |-> n, depth |-> d, attribute |-> a, text |-> t]

ItemNodes(item) ==
    <<Element("Item", 5, <<>>, <<>>)>>
        \o [f \in DOMAIN Fields |-> Element(Fields[f], 6, <<>>, item[f])]

ComputerNodes(computer) ==
    <<Element("Computer", 4, computer.ip, <<>>)>>
        \o FlattenSeq([i \in DOMAIN computer.items |-> ItemNodes(computer.items[i])])

UploadNodes(up) ==
    <<Element("Tacktech", 1, <<>>, <<>>),
      Element("Type", 2, <<"UPLOAD">>, <<>>),
      Element("Upload", 3, <<>>, <<>>)>>
        \o FlattenSeq([c \in DOMAIN up |-> ComputerNodes(up[c])])

get_xml_upload(up) == PrintAll(UploadNodes(up))

-----------------------------------------------------------------------------
(* Artemis_Request_Handler. *)

\* The loop over next_sibling; before it, one that stops at the first and one
\* that goes the other way.
FirstComputer(tree, ups) == InOrder(FirstChild(tree, ups, "Computer"))
ComputersBackwards(tree, ups) == Reverse(InOrder(Children(tree, ups, "Computer")))
ComputersOf(tree, ups) == InOrder(Children(tree, ups, "Computer"))

generate_queries(text) ==
    LET tree == Parse(text)
        type == FirstChild(tree, FirstChild(tree, {0}, "Tacktech"), "Type")
        sent == {k \in FirstChild(tree, type, "Upload") :
                    \A t \in type : tree[t].attribute = <<"UPLOAD">>}
        computers == ComputersOf(tree, sent)
    IN  [c \in DOMAIN computers |->
            [ip |-> tree[computers[c]].attribute, text |-> PrintNode(tree, computers[c])]]

handle_request(text) ==
    /\ handle_read(text)
    /\ uploads' = generate_queries(text)
    /\ UNCHANGED upload

-----------------------------------------------------------------------------
(* Tactek_Display::handle_recieved_data. *)

ItemsShown(text) ==
    LET tree == Parse(text)
        items == InOrder(Children(tree, FirstChild(tree, {0}, "Computer"), "Item"))
    IN  [i \in DOMAIN items |->
            [f \in DOMAIN Fields |-> child_value(tree, items[i], Fields[f])]]

-----------------------------------------------------------------------------
Init ==
    /\ FramingInit
    /\ upload \in Uploads /\ request = get_xml_upload(upload)
    /\ uploads = <<>>

Next ==
    \/ \E text \in HandedOn : handle_request(text)
    \/ (ManagerStep \/ ReadsSome \/ handle_read_error) /\ UNCHANGED <<upload, uploads>>

Spec == Init /\ [][Next]_requestVars

\* The thread and the server's handlers run, and the kernels pass on data; the
\* waits of the thread are limited.
Fairness ==
    /\ WF_framingVars(run_write \/ run_disconnect \/ run_end)
    /\ WF_framingVars(ServerStep)

FairSpec == Spec /\ Fairness

-----------------------------------------------------------------------------
\* Upload c is the one its computer was to get.
Faithful(c) ==
    /\ uploads[c].ip = upload[c].ip
    /\ ItemsShown(uploads[c].text) = upload[c].items

\* A request without an entity is carried out as a whole, whatever is read
\* behind the buffer: each computer gets its items, and nobody else anything.
PlainRequestsAreCarriedOut ==
    reader = "handled" /\ Plain(request) =>
        /\ DOMAIN uploads = DOMAIN upload
        /\ \A c \in DOMAIN upload : Faithful(c)

\* A request that was cut behind an entity is carried out as far as it goes, and
\* only the last computer can be treated other than it was meant: its last item
\* may be another one, or, if it has no items left, its address.  All others
\* reach their displays, whose parser cannot tell that one is missing.
\* If bytes behind the buffer were taken in, nothing can be said of the last
\* computer.
OnlyTheLastIsDamaged ==
    reader = "handled" /\ ~full =>
        /\ Len(uploads) <= Len(upload)
        /\ \A c \in DOMAIN uploads :
              \/ Faithful(c)
              \/ /\ c = Len(uploads)
                 /\ LET items == ItemsShown(uploads[c].text) IN
                       /\ items # <<>> => uploads[c].ip = upload[c].ip
                       /\ Len(items) <= Len(upload[c].items)
                       /\ \A i \in 1 .. Len(items) - 1 : items[i] = upload[c].items[i]
=============================================================================
