---------------------------- MODULE MCHistories ----------------------------
(* Model values and scenes for Histories. *)
EXTENDS Histories

CONSTANTS user, channel

OneChat ==
    [chats |-> {user}, channels |-> {}, known |-> {}, top |-> 0, calls |-> 1, entries |-> 1,
     failing |-> FALSE, ghosting |-> FALSE, ordered |-> FALSE]

\* Two chats that are read, while requests fail and ghost mode is turned on and off.
TwoChats ==
    [OneChat EXCEPT !.chats = {user, channel}, !.channels = {channel}, !.known = {user, channel},
                    !.top = 2, !.calls = 0, !.entries = 0, !.failing = TRUE, !.ghosting = TRUE]

\* One chat that is read, with answers in order.
Reads == [OneChat EXCEPT !.top = 3, !.ordered = TRUE]

\* One chat that is read, with ghost mode.
Ghost == [OneChat EXCEPT !.top = 2, !.calls = 0, !.ghosting = TRUE]

MCOneChat == {[OneChat EXCEPT !.chats = {channel}, !.channels = {channel}]}
MCReads == {TwoChats, Reads}
MCGhost == {Ghost}
MCNone == {}
MCTypes == Types
MCSlice == {"History"}
=============================================================================
