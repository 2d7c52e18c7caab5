----------------------------- MODULE MCRequests -----------------------------
(* Small uploads: two computers; in one of them no value needs an entity, in *)
(* the others a file name of the first computer, or of the second, does.     *)
EXTENDS Requests

MCItem(name) == <<<<name, "ext">>, <<"data1", "data2">>, <<"0">>>>
MCComputer(ip, names) ==
    [ip |-> ip, items |-> [i \in DOMAIN names |-> MCItem(names[i])]]

MCUploads == {
    <<MCComputer(<<"d", "1">>, <<"f", "g">>), MCComputer(<<"d", "2">>, <<"g">>)>>,
    <<MCComputer(<<"d", "1">>, <<"&">>), MCComputer(<<"d", "2">>, <<"g">>)>>,
    <<MCComputer(<<"d", "1">>, <<>>), MCComputer(<<"d", "2">>, <<"f", "&">>)>>}
MCSpecial == {"&"}

Names == {"Tacktech", "Type", "Upload", "Computer", "Item", "Filename", "File_Data", "Pause"}
Pieces == {"UPLOAD", "d", "1", "2", "f", "g", "ext", "data1", "data2", "0", "junk", "old", ";"}

MCValue == Pieces \cup MCSpecial

MCRequestTexts == {get_xml_upload(up) : up \in MCUploads}
MCDelimiter == Text(";")
MCOverreads == {<<Text("junk")>>,
                <<Open("Computer"), Attribute, Text("old"), Quote, SlashGt>>}
MCAtom ==
    {Open(n) : n \in Names} \cup {Close(n) : n \in Names}
        \cup {Text(x) : x \in Pieces} \cup {Entity(x) : x \in MCSpecial}
        \cup {Attribute, Quote, Gt, SlashGt, Lt, MCDelimiter}
MCSemicolons == {MCDelimiter} \cup {Entity(x) : x \in MCSpecial}
=============================================================================
