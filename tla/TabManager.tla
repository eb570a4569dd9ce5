----------------------------- MODULE TabManager -----------------------------
(***************************************************************************)
(* The tabbed window: the list of tabs and the stack of closed ones        *)
(* (ev-tab-manager.c), the tabs (ev-tab.c) and the window whose notebook   *)
(* and title follow the manager's signals (ev-tabbed-window.c).            *)
(*                                                                         *)
(* All of it runs on the main thread.  An operation emits its signals in   *)
(* the middle, and the handlers run before it goes on: title and page are  *)
(* what the handlers make of the manager's state at that moment.           *)
(*                                                                         *)
(* A tab is a number, in the order of their creation.  A document is the   *)
(* number of the tab it was opened for; references to documents are        *)
(* counted, so that the count can be compared with the pointers there are. *)
(* A program that goes on to use a freed object may crash, which ends the  *)
(* behaviour, or find it as it was, which is what the model follows.       *)
(*                                                                         *)
(* The session manager asks for the state to be saved and starts the       *)
(* program again with it (ev-application.c).                               *)
(***************************************************************************)
EXTENDS Integers, Sequences, FiniteSets, SequencesExt

CONSTANTS
    Locations,  \* the files
    WithComma,  \* those whose URI has a comma in it
    MaxTabs,    \* bound: how many tabs are created
    EV_TAB_MANAGER_REOPEN_STACK_MAX,
    None        \* the null pointer

ASSUME TabsAssumption ==
    /\ WithComma \subseteq Locations
    /\ MaxTabs \in Nat
    /\ EV_TAB_MANAGER_REOPEN_STACK_MAX \in Nat
    /\ None \notin Nat

Tabs == 1 .. MaxTabs

VARIABLES
    tab,           \* the tabs created so far: document, location
    tabs,          \* the array of the manager
    active_index,  \* index into it, from 0; -1 when it is empty
    reopen_stack,  \* what is kept of closed tabs, the oldest first
    announced,     \* argument of the last ACTIVE_CHANGED
    pages,         \* the children of the notebook
    page,          \* the one it shows
    title,         \* the tab whose title the window has
    doc_refs,      \* document -> its reference count
    saved,         \* "uris" of the state file: the files of the tabs
    restoring      \* those of them that are still to be opened

managerVars == <<tab, tabs, active_index, reopen_stack, announced>>
windowVars == <<pages, page, title>>
sessionVars == <<saved, restoring>>
vars == <<tab, tabs, active_index, reopen_stack, announced, pages, page,
          title, doc_refs, saved, restoring>>

Entry == [document : Tabs, location : Locations]

TypeOK ==
    /\ tab \in Seq(Entry)
    /\ Len(tab) <= MaxTabs
    /\ tabs \in Seq(1 .. Len(tab))
    /\ active_index \in -1 .. Len(tabs) - 1
    /\ active_index = -1 <=> tabs = <<>>
    /\ reopen_stack \in Seq(Entry)
    /\ Len(reopen_stack) <= EV_TAB_MANAGER_REOPEN_STACK_MAX
    /\ announced \in Tabs \cup {None}
    /\ pages \in Seq(Tabs)
    /\ page \in Tabs \cup {None}
    /\ title \in Tabs \cup {None}
    /\ doc_refs \in [Tabs -> Int]
    /\ saved \in Seq(Locations)
    /\ restoring \in Seq(Locations)

Init ==
    /\ tab = <<>>
    /\ tabs = <<>>
    /\ active_index = -1
    /\ reopen_stack = <<>>
    /\ announced = None
    /\ pages = <<>>
    /\ page = None
    /\ title = None
    /\ doc_refs = [t \in Tabs |-> 0]
    /\ saved = <<>>
    /\ restoring = <<>>

-----------------------------------------------------------------------------
(* Looking things up *)

\* ev_tab_manager_get_active: for an array and an index that may be out of
\* step with each other in the middle of an operation.
ActiveOf(array, index) ==
    IF index \in 0 .. Len(array) - 1 THEN array[index + 1] ELSE None

Active == ActiveOf(tabs, active_index)

\* ev_tab_manager_get_tab_by_location: the first tab that has it.
HasLocation(k, location) ==
    /\ tab[tabs[k]].location = location
    /\ \A j \in 1 .. k - 1 : tab[tabs[j]].location # location

IsOpen(location) == \E k \in DOMAIN tabs : HasLocation(k, location)

-----------------------------------------------------------------------------
(* The signals and what the window does on them *)

\* Mutant of ActiveChanged: on_active_changed shows the page and leaves the title.
MutActiveChanged(t) ==
    /\ announced' = t
    /\ page' = t
    /\ UNCHANGED title

\* ACTIVE_CHANGED with on_active_changed.
ActiveChanged(t) ==
    /\ announced' = t
    /\ page' = t
    /\ title' = t

\* ev_tab_manager_append_tab with on_tab_added.
AppendTab(t) ==
    /\ tabs' = Append(tabs, t)
    /\ active_index' = Len(tabs)
    /\ pages' = Append(pages, t)
    /\ ActiveChanged(t)

\* gtk_notebook_page_num.
PageNum(t) == CHOOSE j \in DOMAIN pages : pages[j] = t

\* gtk_notebook_remove_page: another page is shown if the removed one was.
PageAfter(t) ==
    LET k == PageNum(t)
    IN  IF page # t THEN page
        ELSE IF k < Len(pages) THEN pages[k + 1]
        ELSE IF k > 1 THEN pages[k - 1] ELSE None

\* Mutant of PagesWithout: the page that is shown is removed.
MutPagesWithout(t) == RemoveAt(pages, PageNum(page))

\* on_tab_removed: the page of the tab goes.
PagesWithout(t) == RemoveAt(pages, PageNum(t))

-----------------------------------------------------------------------------
(* The operations *)

\* ev_tabbed_window_open_file for a file that no tab holds: the document is
\* loaded, and the tab is its owner.
OpenFile(location) ==
    LET t == Len(tab) + 1 IN
    /\ ~IsOpen(location)
    /\ t \in Tabs
    /\ tab' = Append(tab, [document |-> t, location |-> location])
    /\ AppendTab(t)
    /\ doc_refs' = [doc_refs EXCEPT ![t] = 1]
    /\ UNCHANGED reopen_stack

\* ev_tab_manager_set_active, which ev_tabbed_window_open_file calls for the
\* tab that holds the file already.
SetActive(k) ==
    /\ active_index # k - 1
    /\ active_index' = k - 1
    /\ ActiveChanged(tabs[k])
    /\ UNCHANGED <<tab, tabs, reopen_stack, pages, doc_refs>>

FocusFile(location) ==
    \E k \in DOMAIN tabs : HasLocation(k, location) /\ SetActive(k)

SelectNext ==
    /\ Len(tabs) >= 2
    /\ active_index' = (active_index + 1) % Len(tabs)
    /\ ActiveChanged(tabs[active_index' + 1])
    /\ UNCHANGED <<tab, tabs, reopen_stack, pages, doc_refs>>

SelectPrev ==
    /\ Len(tabs) >= 2
    /\ active_index' = IF active_index <= 0 THEN Len(tabs) - 1
                                            ELSE active_index - 1
    /\ ActiveChanged(tabs[active_index' + 1])
    /\ UNCHANGED <<tab, tabs, reopen_stack, pages, doc_refs>>

\* The stack with the entry of a closed tab pushed and the oldest dropped.
Pushed(entry) ==
    LET stack == Append(reopen_stack, entry)
    IN  IF Len(stack) > EV_TAB_MANAGER_REOPEN_STACK_MAX THEN Tail(stack)
                                                        ELSE stack

\* Mutant of DocRefsPushed: the entry that is dropped from the stack is not freed.
MutDocRefsPushed(entry) == doc_refs

\* Counts of documents after that: the entry holds a reference, the tab gives
\* its own up when the notebook has let go of it, the dropped entry its own.
DocRefsPushed(entry) ==
    LET dropped == Head(Append(reopen_stack, entry)).document
    IN  IF Len(reopen_stack) + 1 > EV_TAB_MANAGER_REOPEN_STACK_MAX
        THEN [doc_refs EXCEPT ![dropped] = @ - 1]
        ELSE doc_refs

\* ev_tab_manager_remove_tab of the tab at index k - 1.  on_tab_removed runs
\* when the array has changed and active_index has not.
RemoveTab(k) ==
    LET t     == tabs[k]
        index == k - 1
        rest  == RemoveAt(tabs, k)
        heir  == IF index > 0 THEN index - 1 ELSE 0
    IN
    /\ reopen_stack' = Pushed(tab[t])
    /\ doc_refs' = DocRefsPushed(tab[t])
    /\ tabs' = rest
    /\ pages' = PagesWithout(t)
    /\ CASE Len(tabs) = 1 ->
              /\ active_index' = -1
              /\ announced' = None
              /\ page' = PageAfter(t)
              /\ title' = None
         [] Len(tabs) > 1 /\ active_index = index ->
              /\ active_index' = heir
              /\ ActiveChanged(rest[heir + 1])
         [] OTHER ->
              /\ active_index' = IF active_index > index THEN active_index - 1
                                                         ELSE active_index
              /\ page' = PageAfter(t)
              /\ title' = ActiveOf(rest, active_index)
              /\ UNCHANGED announced
    /\ UNCHANGED tab

\* on_close_button_clicked: the button on the label of a page of the notebook.
ClickClose(j) ==
    \E k \in DOMAIN tabs : tabs[k] = pages[j] /\ RemoveTab(k)

\* ev_tabbed_window_close_active_tab.
CloseActiveTab ==
    \E k \in DOMAIN tabs : tabs[k] = Active /\ RemoveTab(k)

\* The notebook itself shows the page of a label that is clicked; nothing
\* listens to that.  The labels are visible when there are two pages.
ClickLabel(j) ==
    /\ Len(pages) >= 2
    /\ page' = pages[j]
    /\ UNCHANGED <<managerVars, pages, title, doc_refs>>

\* Mutant of IndexAfterReorder: a tab moved to the place of the active one leaves the index as it is.
MutIndexAfterReorder(old_index, new_index) ==
    CASE active_index = old_index -> new_index
      [] active_index > old_index /\ active_index < new_index -> active_index - 1
      [] active_index < old_index /\ active_index >= new_index -> active_index + 1
      [] OTHER -> active_index

\* Where the active tab is after one was moved.
IndexAfterReorder(old_index, new_index) ==
    CASE active_index = old_index -> new_index
      [] active_index > old_index /\ active_index <= new_index -> active_index - 1
      [] active_index < old_index /\ active_index >= new_index -> active_index + 1
      [] OTHER -> active_index

\* ev_tab_manager_reorder_tab, both indices from 0.  TAB_REORDERED has no
\* handler.
ReorderTab(old_index, new_index) ==
    LET t == tabs[old_index + 1] IN
    /\ old_index # new_index
    /\ tabs' = InsertAt(RemoveAt(tabs, old_index + 1), new_index + 1, t)
    /\ active_index' = IndexAfterReorder(old_index, new_index)
    /\ UNCHANGED <<tab, reopen_stack, announced, windowVars, doc_refs>>

\* ev_tab_manager_reopen_last_closed_tab.  The new tab takes no reference to
\* its document (ev_tab_set_property), and the entry gives up its own.
ReopenLastClosedTab ==
    LET entry == Last(reopen_stack)
        t     == Len(tab) + 1
    IN
    /\ reopen_stack # <<>>
    /\ t \in Tabs
    /\ reopen_stack' = Front(reopen_stack)
    /\ tab' = Append(tab, entry)
    /\ AppendTab(t)
    /\ doc_refs' = [doc_refs EXCEPT ![entry.document] = @ - 1]

\* ev_tab_manager_clear_reopen_stack.
ClearReopenStack ==
    /\ reopen_stack # <<>>
    /\ doc_refs' = [d \in Tabs |-> doc_refs[d] -
         Cardinality({k \in DOMAIN reopen_stack :
                        reopen_stack[k].document = d})]
    /\ reopen_stack' = <<>>
    /\ UNCHANGED <<tab, tabs, active_index, announced, windowVars>>

\* The list that smclient_save_state_cb writes.
FilesOfTabs == [k \in DOMAIN tabs |-> tab[tabs[k]].location]

\* smclient_save_state_cb.  Without tabs the key is not written; the state
\* file is a new one every time.
SaveState ==
    /\ saved' = FilesOfTabs
    /\ UNCHANGED <<managerVars, windowVars, doc_refs, restoring>>

\* The program is ended and started again with a list of files.
StartWith(uris) ==
    /\ tab' = <<>>
    /\ tabs' = <<>>
    /\ active_index' = -1
    /\ reopen_stack' = <<>>
    /\ announced' = None
    /\ pages' = <<>>
    /\ page' = None
    /\ title' = None
    /\ doc_refs' = [t \in Tabs |-> 0]
    /\ restoring' = uris
    /\ UNCHANGED saved

\* Mutant of Restart: the loop over the list starts at 1.
MutRestart == StartWith(IF saved = <<>> THEN <<>> ELSE Tail(saved))

\* ev_application_load_session, up to the loop.
Restart == StartWith(saved)

\* A turn of the loop of ev_application_load_session.  The URIs are told apart
\* by commas: one with a comma comes in pieces, and no file has their names.
LoadSession ==
    LET location == Head(restoring) IN
    /\ restoring # <<>>
    /\ restoring' = Tail(restoring)
    /\ UNCHANGED saved
    /\ \/ location \notin WithComma /\ (OpenFile(location) \/ FocusFile(location))
       \/ /\ \/ location \in WithComma
             \/ \E k \in DOMAIN tabs :
                  HasLocation(k, location) /\ active_index = k - 1
          /\ UNCHANGED <<managerVars, windowVars, doc_refs>>

Operation ==
    \/ \E location \in Locations : OpenFile(location) \/ FocusFile(location)
    \/ SelectNext
    \/ SelectPrev
    \/ \E j \in DOMAIN pages : ClickClose(j) \/ ClickLabel(j)
    \/ CloseActiveTab
    \/ \E i, j \in 0 .. Len(tabs) - 1 : ReorderTab(i, j)
    \/ ReopenLastClosedTab
    \/ ClearReopenStack

Next ==
    \/ restoring = <<>> /\ Operation /\ UNCHANGED sessionVars
    \/ restoring = <<>> /\ (SaveState \/ Restart)
    \/ LoadSession

Spec == Init /\ [][Next]_vars

-----------------------------------------------------------------------------
(* Properties *)

\* What the manager promises: a row of distinct tabs, the one observers were
\* told of being the active one, whatever the order in which tabs are opened,
\* closed, moved and reopened (ev-tab-manager.c:212-358).
TS == INSTANCE TabStrip WITH strip <- tabs, active <- Active
ImplementsTabStrip == TS!Spec

\* The notebook and the manager keep a list each, and only the signals keep
\* them together: no tab is ever without its page, no page without its tab, and
\* none is there twice (ev-tabbed-window.c:207-291).
PagesAreTabs ==
    /\ Len(pages) = Len(tabs)
    /\ \A k \in DOMAIN tabs : \E j \in DOMAIN pages : pages[j] = tabs[k]
    /\ \A j, k \in DOMAIN tabs : tabs[j] = tabs[k] => j = k

\* The manager's row, the notebook's and the stack of closed tabs stay well
\* formed and in step.
TabsAreInStep == TypeOK /\ PagesAreTabs

\* The title goes by the manager's idea of the active tab.  It is wrong only
\* after a tab to the left of the active one was closed, when the index is put
\* right after the title was set (ev-tab-manager.c:271, 293); whatever happens
\* next to the active tab puts it right.
TitleStep ==
    title = Active /\ title' # Active' =>
      /\ Len(tabs') = Len(tabs) - 1
      /\ Active' = Active
      /\ active_index' = active_index - 1
TitleGoesStaleOnlyByClosing == [][TitleStep]_vars

\* No two tabs hold one file.  Opening a file that a tab holds shows that tab
\* (ev-tabbed-window.c:486), but a closed tab can be reopened after its file was
\* opened again.
OneTabPerFile ==
    \A j, k \in DOMAIN tabs : tab[tabs[j]].location = tab[tabs[k]].location => j = k

\* A document has as many references as there are tabs and closed entries that
\* hold it: closing, dropping the oldest entry and clearing the stack keep the
\* balance, over any number of steps; only reopening upsets it, because the new
\* tab takes no reference (ev-tab.c:65, ev-tab-manager.c:377-387).
HoldersOf(d) ==
    {k \in DOMAIN tabs : tab[tabs[k]].document = d}
      \cup {-k : k \in {j \in DOMAIN reopen_stack : reopen_stack[j].document = d}}
DocumentsAreOwned == \A d \in Tabs : doc_refs[d] = Cardinality(HoldersOf(d))
OwnershipIsLostOnlyByReopening ==
    [][DocumentsAreOwned /\ ~DocumentsAreOwned' => ReopenLastClosedTab]_vars

\* Saving the session, ending the program at any later time and starting it
\* again opens each saved file whose URI can be told apart in the list, in one
\* tab, and the last of them is active (ev-application.c:120-184).
SessionIsRestored ==
    [][restoring # <<>> /\ restoring' = <<>> =>
         /\ {tab'[tabs'[k]].location : k \in DOMAIN tabs'} =
              {saved[k] : k \in DOMAIN saved} \ WithComma
         /\ OneTabPerFile']_vars

=============================================================================
