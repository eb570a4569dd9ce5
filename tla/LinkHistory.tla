---------------------------- MODULE LinkHistory ----------------------------
(***************************************************************************)
(* ev-history.c: the bounded list of the links a reader has followed, with *)
(* the one that is current, and the circle it is part of.  A link that is  *)
(* activated goes from the history to the view, which announces it (the    *)
(* window answers by adding it to the history) and moves to its page; the  *)
(* document model tells the history that the page has changed, and that    *)
(* adds a link as well.  Freezing the history and blocking the handler     *)
(* keep a walk through the history from changing it.                       *)
(*                                                                         *)
(* All of it is one thread and one call: the operators take a history and  *)
(* return what the nested calls make of it.                                *)
(***************************************************************************)
EXTENDS Integers, Sequences, SequencesExt

CONSTANTS
    Documents,              \* what can be loaded
    NPages,                 \* document -> number of its pages
    Named,                  \* links of documents that name a destination
    Dest,                   \* document -> link -> the page it leads to, if any
    Untitled,               \* the links without a title, in no table of contents
    EV_HISTORY_MAX_LENGTH,  \* bound of the list
    None                    \* no document

NoPage == -1

ASSUME ParametersAssumption ==
    /\ NPages \in [Documents -> Nat \ {0}]
    /\ Dest \in [Documents -> [Named -> Nat \cup {NoPage}]]
    /\ Untitled \subseteq Named
    /\ Named \cap Int = {}
    /\ EV_HISTORY_MAX_LENGTH \in Nat \ {0}
    /\ None \notin Documents

VARIABLES
    document,   \* the document and the page of the model
    page,
    history,    \* the list and the position of its current link, 0 without any
    menu        \* the links in the menu that is open, if one is

vars == <<document, page, history, menu>>

\* The history makes links of its own, to a page.
Link == Nat \cup Named

History == [list : Seq(Link), current : Nat]

IsPage(p) == document # None /\ p \in 0 .. NPages[document] - 1

\* Where a link leads in the document.
Target(link) == IF link \in Named THEN Dest[document][link] ELSE link

-----------------------------------------------------------------------------
(* The history *)

Empty == [list |-> <<>>, current |-> 0]

\* Mutant of Prune: one link too many stays.
MutPrune(list) ==
    IF Len(list) <= EV_HISTORY_MAX_LENGTH + 1 THEN list
    ELSE SubSeq(list, Len(list) - EV_HISTORY_MAX_LENGTH, Len(list))

\* ev_history_prune: the last links, the current one being the last.
Prune(list) ==
    IF Len(list) <= EV_HISTORY_MAX_LENGTH THEN list
    ELSE SubSeq(list, Len(list) - EV_HISTORY_MAX_LENGTH + 1, Len(list))

\* ev_history_add_link: what was ahead of the current link is forgotten.
AddLink(h, frozen, link) ==
    IF frozen THEN h
    ELSE LET list == Prune(Append(SubSeq(h.list, 1, h.current), link))
         IN  [list |-> list, current |-> Len(list)]

\* ev_history_get_current_page.
CurrentPage(h) ==
    IF h.current = 0 THEN NoPage ELSE Target(h.list[h.current])

\* Mutant of AddLinkForPage: only if it is not the page of the last link.
MutAddLinkForPage(h, frozen, p) ==
    IF h.list # <<>> /\ Target(Last(h.list)) = p THEN h ELSE AddLink(h, frozen, p)

\* page_changed_cb, ev_history_add_link_for_page.
AddLinkForPage(h, frozen, p) ==
    IF CurrentPage(h) = p THEN h ELSE AddLink(h, frozen, p)

-----------------------------------------------------------------------------
(* The view *)

\* ev_view_handle_link and ev_view_goto_dest: where a link takes the view.
GotoDest(link) == IF IsPage(Target(link)) THEN Target(link) ELSE page

\* view_handle_link_cb: an untitled link takes its title from the page it
\* leads to, and is dropped if there is none.
HandleLinkCb(h, frozen, link) ==
    IF link \in Untitled /\ ~ IsPage(Target(link)) THEN h
    ELSE AddLink(h, frozen, link)

\* ev_view_handle_link: first the signal, then the move.
HandleLink(h, frozen, blocked, link) ==
    LET added == HandleLinkCb(h, frozen, link)
    IN  IF GotoDest(link) = page \/ blocked THEN added
        ELSE AddLinkForPage(added, frozen, GotoDest(link))

\* Mutant of Activate: the history is not frozen.
MutActivate(h) ==
    /\ page' = GotoDest(h.list[h.current])
    /\ history' = HandleLink(h, FALSE, TRUE, h.list[h.current])

\* ev_history_activate_current_link, with the position already moved.
Activate(h) ==
    /\ page' = GotoDest(h.list[h.current])
    /\ history' = HandleLink(h, TRUE, TRUE, h.list[h.current])

-----------------------------------------------------------------------------
(* What the reader does *)

Init ==
    /\ document = None
    /\ page = NoPage
    /\ history = Empty
    /\ menu = {}

\* ev_document_model_set_document and document_changed_cb: what the change of
\* the page adds is cleared again.
SetDocument(d) ==
    /\ document' = d
    /\ page' = IF page < 0 THEN 0
               ELSE IF page >= NPages[d] THEN NPages[d] - 1 ELSE page
    /\ history' = [list |-> <<page'>>, current |-> 1]
    /\ UNCHANGED menu

\* ev_document_model_set_page, from scrolling, searching, the page selector.
SetPage(p) ==
    /\ IsPage(p)
    /\ p # page
    /\ page' = p
    /\ history' = AddLinkForPage(history, FALSE, p)
    /\ UNCHANGED <<document, menu>>

\* A link of the document or of a sidebar.
FollowLink(link) ==
    /\ document # None
    /\ page' = GotoDest(link)
    /\ history' = HandleLink(history, FALSE, FALSE, link)
    /\ UNCHANGED <<document, menu>>

GoBack ==
    /\ history.current > 1
    /\ Activate([history EXCEPT !.current = @ - 1])
    /\ UNCHANGED <<document, menu>>

GoForward ==
    /\ history.current \in 1 .. Len(history.list) - 1
    /\ Activate([history EXCEPT !.current = @ + 1])
    /\ UNCHANGED <<document, menu>>

\* ev_history_action_widget_show_popup, on either button.
ShowPopup ==
    /\ menu = {}
    /\ history.current # 0
    /\ \/ menu' = ToSet(SubSeq(history.list, 1, history.current - 1))
       \/ menu' = ToSet(SubSeq(history.list, history.current + 1, Len(history.list)))
    /\ UNCHANGED <<document, page, history>>

Hide ==
    /\ menu # {}
    /\ menu' = {}
    /\ UNCHANGED <<document, page, history>>

\* The position g_list_find_custom finds, the first of an equal link.
Position(link) == SelectInSeq(history.list, LAMBDA l : l = link)

\* Mutant of GoToLink: a link the history does not have is added to it.
MutGoToLink(link) ==
    /\ link \in menu
    /\ menu' = {}
    /\ page' = GotoDest(link)
    /\ history' = HandleLink(history, FALSE, FALSE, link)
    /\ UNCHANGED document

\* ev_history_go_to_link with a link of the menu, which the history may have
\* lost since.
GoToLink(link) ==
    /\ link \in menu
    /\ menu' = {}
    /\ IF Position(link) = 0 THEN UNCHANGED <<page, history>>
       ELSE Activate([history EXCEPT !.current = Position(link)])
    /\ UNCHANGED document

Walk == GoBack \/ GoForward \/ \E link \in menu : GoToLink(link)

Next ==
    \/ \E d \in Documents : SetDocument(d)
    \/ document # None /\ \E p \in 0 .. NPages[document] - 1 : SetPage(p)
    \/ \E link \in Named : FollowLink(link)
    \/ Walk
    \/ ShowPopup
    \/ Hide

Spec == Init /\ [][Next]_vars

-----------------------------------------------------------------------------
(* Properties *)

TypeOK ==
    /\ document \in Documents \cup {None}
    /\ page \in Nat \cup {NoPage}
    /\ history \in History
    /\ menu \subseteq Link

\* The list is within its bound, and its current link is one of it: the links
\* the buttons and menus dereference exist.
ListIsBounded ==
    /\ TypeOK
    /\ Len(history.list) <= EV_HISTORY_MAX_LENGTH
    /\ IF document = None THEN history = Empty
       ELSE history.current \in 1 .. Len(history.list)

\* The current link is the one to the page in sight, however the reader got
\* there, unless it is a link that leads nowhere.
CurrentShowsThePage ==
    document # None =>
        /\ IsPage(page)
        /\ IsPage(CurrentPage(history)) => CurrentPage(history) = page

\* Walking through the history does not change it.
WalkingKeepsTheList == [][Walk => history'.list = history.list]_vars

\* "Goes to the link, if it is in the history": a link that was offered before
\* is gone to or has been forgotten since.
GoesToTheLink ==
    [][\A link \in menu : GoToLink(link) =>
        IF link \in ToSet(history.list)
        THEN /\ history'.list[history'.current] = link
             /\ IsPage(Target(link)) => page' = Target(link)
        ELSE UNCHANGED <<page, history>>]_vars
=============================================================================
