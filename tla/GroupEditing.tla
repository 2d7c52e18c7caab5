----------------------------- MODULE GroupEditing -----------------------------
(***************************************************************************)
(* The manager's groups of computers: the main window's groups, its list   *)
(* of groups with their playlists, and the dialogs Edit_Group,             *)
(* Add_Computer_Dialog and Add_Group_Dialog; and the scheduling of an      *)
(* upload for the group selected in the main window.                       *)
(*                                                                         *)
(* Edit_Group works on a copy made each time it is opened; the two small   *)
(* dialogs share the copy that was current when they were opened.  As in   *)
(* PlaylistEditing, dialogs are windows of their own, each slot is one     *)
(* action, and the trees select one item at most.                          *)
(*                                                                         *)
(* Group_Container and Group_Playlist_Container are not part of the        *)
(* repository; they are modelled from their uses: a multimap from group to *)
(* computer in which a new group has one empty computer, and a vector of   *)
(* pairs of group and playlist.                                            *)
(***************************************************************************)
EXTENDS Integers, Sequences, SequencesExt, FiniteSets

CONSTANTS
    Group,          \* names of groups, as naturals in their order
    Computer,       \* names of computers
    NoComputer,     \* the empty name
    MaxEntries      \* bound: pairs in a container

ASSUME GroupEditingAssumption ==
    /\ Group \subseteq Nat /\ IsFiniteSet(Group)
    /\ NoComputer \notin Computer
    /\ MaxEntries \in Nat

VARIABLES
    groups,         \* the main window's groups_and_computers
    group_playlist, \* its groups with their playlists, which its tree shows
    edited,         \* the container Edit_Group works on
    shown,          \* the dialogs that are visible
    holds,          \* whether a small dialog's container is still that one
    group_name,     \* the group Add_Computer_Dialog was opened for
    tree,           \* the rows of Edit_Group's tree with their children
    selected,       \* row and child that are selected; child 0 is the row
    removed,        \* history: a row was removed from the tree as it is
    process         \* "up", or "ended" by an undefined access

main == <<groups, group_playlist>>
vars == <<groups, group_playlist, edited, shown, holds, group_name, tree,
          selected, removed, process>>

Names == Computer \cup {NoComputer}
Small == {"computer", "group"}
NoSelection == <<0, 0>>

-----------------------------------------------------------------------------
(* The containers: a group without pairs is not in the multimap. *)

NoGroups == [g \in Group |-> <<>>]

InGroup(c, g, n) == \E i \in DOMAIN c[g] : c[g][i] = n

\* The members of a set in an order, and what a sequence has at some indices.
InOrder(S, Before(_, _)) ==
    CHOOSE s \in [1 .. Cardinality(S) -> S] :
        /\ \A x \in S : \E i \in DOMAIN s : s[i] = x
        /\ \A i, j \in DOMAIN s : i < j => Before(s[i], s[j])
Lower(i, j) == i < j
EarlierPair(d, e) == d[1] < e[1] \/ (d[1] = e[1] /\ d[2] < e[2])

At(s, S) == LET kept == InOrder(S, Lower) IN [k \in 1 .. Len(kept) |-> s[kept[k]]]

add_computer_name(c, g, n) == [c EXCEPT ![g] = Append(@, n)]
add_group_name(c, g) == add_computer_name(c, g, NoComputer)
remove_computer_name(c, g, n) ==
    [c EXCEPT ![g] = At(@, {i \in DOMAIN c[g] : c[g][i] # n})]
remove_group_name(c, g) == [c EXCEPT ![g] = <<>>]
contains_group_name(c, g) == c[g] # <<>>

Entries(c) == UNION {{<<g, i>> : i \in DOMAIN c[g]} : g \in Group}

GroupsOf(c) == InOrder({g \in Group : contains_group_name(c, g)}, Lower)

-----------------------------------------------------------------------------
Init ==
    /\ groups = NoGroups
    /\ group_playlist = <<>>
    /\ edited = NoGroups
    /\ shown = {}
    /\ holds = [d \in Small |-> "none"]
    /\ group_name \in Group
    /\ tree = <<>>
    /\ selected = NoSelection
    /\ removed = FALSE
    /\ process = "up"

Visible(d) == process = "up" /\ d \in shown

-----------------------------------------------------------------------------
(* Edit_Group. *)

\* A row per pair, not per group, each with all computers of its group.
RowsOf(c) ==
    LET pairs == InOrder(Entries(c), EarlierPair) IN
        [k \in 1 .. Len(pairs) |-> [group |-> pairs[k][1], computers |-> c[pairs[k][1]]]]

\* Before it, a slot that does nothing and one that does not clear the tree's
\* selection.
leave_tree_widget == UNCHANGED <<tree, selected, removed>>
repopulate_tree_widget_selected ==
    /\ tree' = RowsOf(edited')
    /\ removed' = FALSE
    /\ UNCHANGED selected
repopulate_tree_widget ==
    /\ tree' = RowsOf(edited')
    /\ selected' = NoSelection
    /\ removed' = FALSE

\* set_groups_and_computer_names: the dialogs that are open keep the copy they
\* were given.
Superseded == [d \in Small |-> IF holds[d] = "current" THEN "stale" ELSE holds[d]]

edit_group ==
    /\ process = "up"
    /\ edited' = groups
    /\ holds' = Superseded
    /\ repopulate_tree_widget
    /\ shown' = shown \cup {"edit"}
    /\ UNCHANGED <<main, group_name, process>>

Select ==
    /\ Visible("edit")
    /\ \E r \in DOMAIN tree : \E k \in 0 .. Len(tree[r].computers) :
          selected' = <<r, k>>
    /\ UNCHANGED <<main, edited, shown, holds, group_name, tree, removed, process>>

GroupSelected == selected[1] # 0 /\ selected[2] = 0
ComputerSelected == selected[2] # 0
Row == tree[selected[1]]

add_computer_slot ==
    /\ Visible("edit") /\ GroupSelected
    /\ holds' = [holds EXCEPT !["computer"] = "current"]
    /\ group_name' = Row.group
    /\ shown' = shown \cup {"computer"}
    /\ UNCHANGED <<main, edited, tree, selected, removed, process>>

add_group_slot ==
    /\ Visible("edit")
    /\ holds' = [holds EXCEPT !["group"] = "current"]
    /\ shown' = shown \cup {"group"}
    /\ UNCHANGED <<main, edited, group_name, tree, selected, removed, process>>

\* The child is deleted from the row it was selected in, and from no other row
\* of its group.  (Qt may select a neighbour then, as the user may.)
remove_computer_slot ==
    /\ Visible("edit") /\ ComputerSelected
    /\ edited' = remove_computer_name(edited, Row.group, Row.computers[selected[2]])
    /\ tree' = [tree EXCEPT ![selected[1]].computers = RemoveAt(@, selected[2])]
    /\ selected' = NoSelection
    /\ removed' = TRUE
    /\ UNCHANGED <<main, shown, holds, group_name, process>>

\* Likewise only the selected one of the rows of a group.
remove_group_slot ==
    /\ Visible("edit") /\ GroupSelected
    /\ edited' = remove_group_name(edited, Row.group)
    /\ tree' = RemoveAt(tree, selected[1])
    /\ selected' = NoSelection
    /\ removed' = TRUE
    /\ UNCHANGED <<main, shown, holds, group_name, process>>

-----------------------------------------------------------------------------
(* Add_Computer_Dialog and Add_Group_Dialog. *)

\* A name is refused with a message if the dialog's container has it already;
\* whether a container that was superseded has it, is left open.
Adds(d, isNew, c) ==
    /\ Visible(d)
    /\ holds[d] = "current" => isNew
    /\ edited' = (IF holds[d] = "current" THEN c ELSE edited)
    /\ Cardinality(Entries(edited')) <= MaxEntries
    /\ repopulate_tree_widget
    /\ shown' = shown \ {d}
    /\ UNCHANGED <<main, holds, group_name, process>>

add_computer_ok_clicked(n) ==
    Adds("computer", ~InGroup(edited, group_name, n),
         add_computer_name(edited, group_name, n))

add_group_ok_clicked(g) ==
    Adds("group", ~contains_group_name(edited, g), add_group_name(edited, g))

cancel_clicked(d) ==
    /\ Visible(d)
    /\ shown' = shown \ {d}
    /\ UNCHANGED <<main, edited, holds, group_name, tree, selected, removed, process>>

-----------------------------------------------------------------------------
(* The main window. *)

\* The loop that erases entries and counts on: of consecutive entries whose
\* groups are missing, every other one is passed over.
Erased(gp, i) ==
    LET Missing(k) == ~contains_group_name(groups, gp[k].group) IN
        \E first \in 1 .. i :
            /\ \A k \in first .. i : Missing(k)
            /\ first > 1 => ~Missing(first - 1)
            /\ (i - first) % 2 = 0

WithoutMissing(gp) == At(gp, {i \in DOMAIN gp : ~Erased(gp, i)})

WithNew(gp) ==
    LET IsNew(g) == \A i \in DOMAIN gp : gp[i].group # g
        new == InOrder({g \in Group : contains_group_name(groups, g) /\ IsNew(g)}, Lower)
    IN  gp \o [k \in 1 .. Len(new) |-> [group |-> new[k], playlist |-> "ADD PLAYLIST HERE"]]

\* The slot looks at the main window's groups.  Before it, as if Edit_Group had
\* been given the pointer.
group_editing_shared ==
    /\ groups' = edited
    /\ group_playlist' = [k \in 1 .. Len(GroupsOf(edited)) |->
            [group |-> GroupsOf(edited)[k], playlist |-> "ADD PLAYLIST HERE"]]
group_editing_complete ==
    /\ group_playlist' = WithNew(WithoutMissing(group_playlist))
    /\ UNCHANGED groups

edit_ok_clicked ==
    /\ Visible("edit")
    /\ group_editing_complete
    /\ shown' = shown \ {"edit"}
    /\ UNCHANGED <<edited, holds, group_name, tree, selected, removed, process>>

show_schedule_upload_dialog ==
    /\ process = "up"
    /\ shown' = shown \cup {"upload"}
    /\ UNCHANGED <<main, edited, holds, group_name, tree, selected, removed, process>>

\* scheduled_item_added takes the first of the selected items of the main
\* window's tree, which has a row per pair of group_playlist.
upload_ok_clicked ==
    /\ Visible("upload")
    /\ process' = (IF group_playlist = <<>> THEN "ended" ELSE process)
    /\ shown' = shown \ {"upload"}
    /\ UNCHANGED <<main, edited, holds, group_name, tree, selected, removed>>

-----------------------------------------------------------------------------
Next ==
    \/ edit_group \/ Select \/ add_computer_slot \/ add_group_slot
    \/ remove_computer_slot \/ remove_group_slot
    \/ \E n \in Computer : add_computer_ok_clicked(n)
    \/ \E g \in Group : add_group_ok_clicked(g)
    \/ \E d \in {"edit", "computer", "group", "upload"} : cancel_clicked(d)
    \/ edit_ok_clicked \/ show_schedule_upload_dialog \/ upload_ok_clicked

Spec == Init /\ [][Next]_vars

-----------------------------------------------------------------------------
RowType == [group : Group, computers : Seq(Names)]

\* The types; what is selected is in the tree, so that at(0) is.
TypeOK ==
    /\ groups \in [Group -> Seq(Names)]
    /\ group_playlist \in Seq([group : Group, playlist : {"ADD PLAYLIST HERE"}])
    /\ edited \in [Group -> Seq(Names)]
    /\ shown \subseteq {"edit", "computer", "group", "upload"}
    /\ holds \in [Small -> {"none", "current", "stale"}]
    /\ group_name \in Group
    /\ tree \in Seq(RowType)
    /\ selected[1] \in 0 .. Len(tree)
    /\ selected[1] # 0 => selected[2] \in 0 .. Len(Row.computers)
    /\ removed \in BOOLEAN
    /\ process \in {"up", "ended"}

\* Every pair of the container Edit_Group works on has a row in its tree, as has
\* the computer itself, so that it can be selected and removed; unless something
\* was removed since the tree was built, nothing else has.  This is so although
\* dialogs that hold a superseded container add to that one
\* (repopulate_tree_widget, set_groups_and_computer_names).
TreeShowsEdited ==
    LET pairs == {<<e[1], edited[e[1]][e[2]]>> : e \in Entries(edited)}
        rows  == UNION {{<<tree[r].group, tree[r].computers[k]>> :
                            k \in DOMAIN tree[r].computers} : r \in DOMAIN tree}
    IN  /\ pairs \subseteq rows
        /\ ~removed => pairs = rows

\* No edit reaches the main window: it never lists a group, whatever was edited
\* and accepted, so that there is never one to select when an upload is
\* scheduled (set_groups_and_computer_names, group_editing_complete).
NothingIsListed == groups = NoGroups /\ group_playlist = <<>>

\* "Adds the groups that have been added to the group_playlist list and removes
\* the ones that have been removed": after Edit_Group was accepted the main
\* window lists the groups that were edited (group_editing_complete).
GroupsReachMain ==
    [][edit_ok_clicked =>
          \A g \in Group :
              contains_group_name(edited, g)
                  <=> \E i \in DOMAIN group_playlist' : group_playlist'[i].group = g]_vars
=============================================================================
