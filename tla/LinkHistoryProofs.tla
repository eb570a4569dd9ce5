------------------------- MODULE LinkHistoryProofs -------------------------
(***************************************************************************)
(* Theorems about LinkHistory, for any documents, links and bound of the   *)
(* list.  A history is Good when it is of a document: adding a link keeps  *)
(* it so and makes the link the current one, activating one changes        *)
(* nothing in it.                                                          *)
(***************************************************************************)
EXTENDS LinkHistory, TLAPS, WellFoundedInduction

Good(h) ==
    /\ h \in History
    /\ h.current \in 1 .. Len(h.list)
    /\ Len(h.list) <= EV_HISTORY_MAX_LENGTH

-----------------------------------------------------------------------------
(* Helpers *)

\* A set of numbers that is not empty has the smallest element Min names.
LEMMA MinOfNumbers ==
    ASSUME NEW S \in SUBSET Nat, S # {}
    PROVE  Min(S) \in S
<1>1. PICK m \in S : \A k \in S : <<k, m>> \notin OpToRel(<, Nat)
  BY WFMin, NatLessThanWellFounded, Zenon
<1>2. \A k \in S : ~ (k < m)
  BY <1>1, Zenon DEF OpToRel
<1>3. \A k \in S : m <= k
  BY <1>2
<1> QED
  BY <1>3 DEF Min

\* The position found is one of the link; 0 says that there is none.
LEMMA PositionFinds ==
    ASSUME NEW link, history \in History
    PROVE  /\ Position(link) # 0 =>
                /\ Position(link) \in 1 .. Len(history.list)
                /\ history.list[Position(link)] = link
           /\ Position(link) = 0 <=> link \notin ToSet(history.list)
<1> DEFINE I == {i \in 1 .. Len(history.list) : history.list[i] = link}
<1>1. Len(history.list) \in Nat /\ DOMAIN history.list = 1 .. Len(history.list)
  BY DEF History
<1>2. Position(link) = IF I # {} THEN Min(I) ELSE 0
  BY DEF Position, SelectInSeq
<1>3. I # {} => Min(I) \in I
  BY <1>1, MinOfNumbers
<1>4. I = {} <=> link \notin ToSet(history.list)
  BY <1>1 DEF ToSet
<1> QED
  BY <1>1, <1>2, <1>3, <1>4

\* Pruning keeps the last link.
LEMMA PruneKeepsTheLast ==
    ASSUME NEW list \in Seq(Link), list # <<>>
    PROVE  /\ Prune(list) \in Seq(Link)
           /\ Len(Prune(list)) \in 1 .. EV_HISTORY_MAX_LENGTH
           /\ Prune(list)[Len(Prune(list))] = list[Len(list)]
<1>1. EV_HISTORY_MAX_LENGTH \in Nat \ {0} /\ Len(list) \in Nat /\ Len(list) # 0
  BY ParametersAssumption
<1>2. CASE Len(list) <= EV_HISTORY_MAX_LENGTH
  BY <1>1, <1>2 DEF Prune
<1>3. CASE Len(list) > EV_HISTORY_MAX_LENGTH
  <2>1. PICK m \in 1 .. Len(list) : m = Len(list) - EV_HISTORY_MAX_LENGTH + 1
    BY <1>1, <1>3
  <2>2. Prune(list) = SubSeq(list, m, Len(list))
    BY <1>1, <1>3, <2>1 DEF Prune
  <2>3. /\ SubSeq(list, m, Len(list)) \in Seq(Link)
        /\ Len(SubSeq(list, m, Len(list))) = Len(list) - m + 1
        /\ \A i \in 1 .. Len(list) - m + 1 :
                SubSeq(list, m, Len(list))[i] = list[m + i - 1]
    BY <1>1, <2>1
  <2> QED
    BY <1>1, <2>1, <2>2, <2>3
<1> QED
  BY <1>1, <1>2, <1>3

\* A link that is added becomes the current one.
LEMMA AddLinkMakesCurrent ==
    ASSUME NEW h, Good(h), NEW link \in Link
    PROVE  /\ Good(AddLink(h, FALSE, link))
           /\ LET added == AddLink(h, FALSE, link)
              IN  added.list[added.current] = link
<1> DEFINE front == SubSeq(h.list, 1, h.current)
           list == Append(front, link)
<1>1. h.list \in Seq(Link) /\ h.current \in 1 .. Len(h.list) /\ Len(h.list) \in Nat
  BY DEF Good, History
<1>2. front \in Seq(Link) /\ Len(front) = h.current
  BY <1>1
<1> HIDE DEF front
<1>3. list \in Seq(Link) /\ list # <<>> /\ list[Len(list)] = link
  BY <1>2
<1>4. AddLink(h, FALSE, link) = [list |-> Prune(list), current |-> Len(Prune(list))]
  BY DEF AddLink, front
<1> HIDE DEF list
<1>5. /\ Prune(list) \in Seq(Link)
      /\ Len(Prune(list)) \in 1 .. EV_HISTORY_MAX_LENGTH
      /\ Prune(list)[Len(Prune(list))] = link
  BY <1>3, PruneKeepsTheLast
<1>6. PICK pruned \in Seq(Link) : pruned = Prune(list)
  BY <1>5
<1>7. /\ Len(pruned) \in Nat /\ Len(pruned) \in 1 .. Len(pruned)
      /\ Len(pruned) <= EV_HISTORY_MAX_LENGTH
      /\ pruned[Len(pruned)] = link
  BY <1>5, <1>6, ParametersAssumption
<1> DEFINE added == [list |-> pruned, current |-> Len(pruned)]
<1>8. Good(added) /\ added.list[added.current] = link
  BY <1>7 DEF Good, History
<1>9. AddLink(h, FALSE, link) = added
  BY <1>4, <1>6
<1> HIDE DEF added
<1> QED
  BY <1>8, <1>9, Zenon

\* The page is that of the current link afterwards.
LEMMA AddLinkForPageShowsIt ==
    ASSUME NEW h, Good(h), NEW p \in Nat
    PROVE  /\ Good(AddLinkForPage(h, FALSE, p))
           /\ CurrentPage(AddLinkForPage(h, FALSE, p)) = p
<1>1. CASE CurrentPage(h) = p
  BY <1>1 DEF AddLinkForPage
<1>2. CASE CurrentPage(h) # p
  <2>1. AddLinkForPage(h, FALSE, p) = AddLink(h, FALSE, p)
    BY <1>2 DEF AddLinkForPage
  <2>2. p \in Link /\ p \notin Named
    BY ParametersAssumption DEF Link
  <2> DEFINE added == AddLink(h, FALSE, p)
  <2>3. Good(added) /\ added.list[added.current] = p
    BY <2>2, AddLinkMakesCurrent
  <2> HIDE DEF added
  <2>4. CurrentPage(added) = p
    BY <2>2, <2>3 DEF Good, History, CurrentPage, Target
  <2> QED
    BY <2>1, <2>3, <2>4 DEF added
<1> QED
  BY <1>1, <1>2

\* A frozen history, with its handler blocked, stays what it is.
LEMMA FrozenStays ==
    ASSUME NEW h, NEW link
    PROVE  HandleLink(h, TRUE, TRUE, link) = h
BY DEF HandleLink, HandleLinkCb, AddLink

\* Links lead to numbers.
LEMMA TargetType ==
    ASSUME document \in Documents, NEW link \in Link
    PROVE  Target(link) \in Nat \cup {NoPage}
BY ParametersAssumption DEF Target, Link

-----------------------------------------------------------------------------
(* The invariant *)

\* The two invariants of the runs are inductive together.
Inv == ListIsBounded /\ CurrentShowsThePage

LEMMA InitInv == Init => Inv
<1> SUFFICES ASSUME Init PROVE Inv
  OBVIOUS
<1>1. history = [list |-> <<>>, current |-> 0] /\ Len(<<>>) = 0 /\ <<>> \in Seq(Link)
  BY DEF Init, Empty
<1>2. history \in History
  BY <1>1 DEF History
<1> QED
  BY <1>1, <1>2, ParametersAssumption
  DEF Init, Inv, ListIsBounded, TypeOK, CurrentShowsThePage, Empty

\* What every step on a document comes down to.
LEMMA GoodStep ==
    ASSUME Inv, document' \in Documents, menu' \subseteq Link, Good(history'),
           IsPage(page)', (IsPage(CurrentPage(history)) => CurrentPage(history) = page)'
    PROVE  Inv'
<1>1. page' \in Nat
  BY ParametersAssumption DEF IsPage
<1> QED
  BY <1>1, ParametersAssumption
  DEF Inv, ListIsBounded, TypeOK, CurrentShowsThePage, Good

\* With a document the history is good.
LEMMA InvIsGood ==
    ASSUME Inv, document # None
    PROVE  /\ document \in Documents /\ Good(history) /\ menu \subseteq Link
           /\ IsPage(page) /\ page \in Nat
           /\ IsPage(CurrentPage(history)) => CurrentPage(history) = page
BY ParametersAssumption
DEF Inv, ListIsBounded, TypeOK, CurrentShowsThePage, Good, IsPage

\* A loaded document starts a history of its own.
LEMMA SetDocumentInv ==
    ASSUME Inv, NEW d \in Documents, SetDocument(d)
    PROVE  Inv'
<1>1. document' = d /\ d # None /\ NPages[d] \in Nat \ {0} /\ menu' \subseteq Link
  BY ParametersAssumption DEF SetDocument, Inv, ListIsBounded, TypeOK
<1>2. page' \in 0 .. NPages[d] - 1
  BY <1>1 DEF SetDocument, Inv, ListIsBounded, TypeOK, NoPage
<1>3. page' \in Link /\ page' \notin Named /\ page' \in Nat
  BY <1>1, <1>2, ParametersAssumption DEF Link
<1>4. history' = [list |-> <<page'>>, current |-> 1]
  BY DEF SetDocument
<1>5. <<page'>> \in Seq(Link) /\ Len(<<page'>>) = 1 /\ <<page'>>[1] = page'
  BY <1>3
<1>6. Good(history')
  BY <1>4, <1>5, ParametersAssumption DEF Good, History
<1>7. CurrentPage(history)' = page'
  BY <1>3, <1>4, <1>5 DEF CurrentPage, Target
<1>8. IsPage(page)'
  BY <1>1, <1>2 DEF IsPage
<1> QED
  BY <1>1, <1>6, <1>7, <1>8, GoodStep

\* A page that is reached without the history becomes its current link.
LEMMA SetPageInv ==
    ASSUME Inv, NEW p, SetPage(p)
    PROVE  Inv'
<1>1. document # None /\ p \in 0 .. NPages[document] - 1
  BY DEF SetPage, IsPage
<1>2. /\ document \in Documents /\ Good(history) /\ menu \subseteq Link
  BY <1>1, InvIsGood
<1>3. p \in Nat
  BY <1>1, <1>2, ParametersAssumption
<1>4. Good(history') /\ page' = p /\ document' = document /\ menu' = menu
  BY <1>2, <1>3, AddLinkForPageShowsIt DEF SetPage
<1>5. CurrentPage(AddLinkForPage(history, FALSE, p)) = p
  BY <1>2, <1>3, AddLinkForPageShowsIt
<1>6. CurrentPage(history)' = p
  BY <1>4, <1>5 DEF SetPage, CurrentPage, Target
<1>7. IsPage(page)'
  BY <1>1, <1>4 DEF IsPage
<1> QED
  BY <1>2, <1>4, <1>6, <1>7, GoodStep

\* A link that is followed is added and then moved to.
LEMMA FollowLinkInv ==
    ASSUME Inv, NEW link \in Named, FollowLink(link)
    PROVE  Inv'
<1> DEFINE added == HandleLinkCb(history, FALSE, link)
<1>1. /\ document # None /\ document' = document /\ menu' = menu
      /\ page' = GotoDest(link)
      /\ history' = HandleLink(history, FALSE, FALSE, link)
  BY DEF FollowLink
<1>2. /\ document \in Documents /\ Good(history) /\ menu \subseteq Link
      /\ IsPage(page) /\ page \in Nat
      /\ IsPage(CurrentPage(history)) => CurrentPage(history) = page
  BY <1>1, InvIsGood
<1>3. link \in Link
  BY DEF Link
<1>4. IsPage(GotoDest(link)) /\ GotoDest(link) \in Nat
  BY <1>2, <1>3, TargetType DEF GotoDest, IsPage, NoPage
<1>5. /\ Good(added)
      /\ IsPage(CurrentPage(added)) => CurrentPage(added) = GotoDest(link)
  <2>1. CASE link \in Untitled /\ ~ IsPage(Target(link))
    BY <1>2, <2>1 DEF HandleLinkCb, GotoDest
  <2>2. CASE ~ (link \in Untitled /\ ~ IsPage(Target(link)))
    <3>1. added = AddLink(history, FALSE, link)
      BY <2>2 DEF HandleLinkCb
    <3>2. Good(added) /\ added.list[added.current] = link
      BY <1>2, <1>3, <3>1, AddLinkMakesCurrent
    <3> HIDE DEF added
    <3>3. CurrentPage(added) = Target(link)
      BY <3>2 DEF CurrentPage, Good, History
    <3> QED
      BY <3>2, <3>3 DEF GotoDest
  <2> QED
    BY <2>1, <2>2
<1>6. /\ Good(history')
      /\ IsPage(CurrentPage(history')) => CurrentPage(history') = GotoDest(link)
  <2>1. CASE GotoDest(link) = page
    BY <1>1, <1>5, <2>1 DEF HandleLink
  <2>2. CASE GotoDest(link) # page
    <3>1. history' = AddLinkForPage(added, FALSE, GotoDest(link))
      BY <1>1, <2>2 DEF HandleLink
    <3> HIDE DEF added
    <3> QED
      BY <1>4, <1>5, <3>1, AddLinkForPageShowsIt
  <2> QED
    BY <2>1, <2>2
<1>7. IsPage(page)'
  BY <1>1, <1>4 DEF IsPage
<1>8. (IsPage(CurrentPage(history)) => CurrentPage(history) = page)'
  BY <1>1, <1>6 DEF IsPage, CurrentPage, Target
<1> QED
  BY <1>1, <1>2, <1>6, <1>7, <1>8, GoodStep

\* Moving to a position of the list and activating it.
LEMMA ActivateInv ==
    ASSUME Inv, document # None, document' = document, menu' \subseteq Link,
           NEW n \in 1 .. Len(history.list),
           Activate([history EXCEPT !.current = n])
    PROVE  Inv' /\ history' = [history EXCEPT !.current = n]
<1> DEFINE h == [history EXCEPT !.current = n]
<1>1. /\ document \in Documents /\ Good(history) /\ menu \subseteq Link
      /\ IsPage(page) /\ page \in Nat
  BY InvIsGood
<1>2. h \in History /\ h.current = n /\ h.list = history.list
  BY <1>1 DEF Good, History
<1>3. Good(h) /\ h.list[h.current] \in Link
  BY <1>1, <1>2 DEF Good, History
<1>4. page' = GotoDest(h.list[h.current]) /\ history' = h
  BY FrozenStays DEF Activate
<1> HIDE DEF h
<1>5. IsPage(GotoDest(h.list[h.current]))
  BY <1>1 DEF GotoDest
<1>6. CurrentPage(h) = Target(h.list[h.current])
  BY <1>3 DEF CurrentPage, Good
<1>7. IsPage(page)'
  BY <1>4, <1>5 DEF IsPage
<1>8. (IsPage(CurrentPage(history)) => CurrentPage(history) = page)'
  BY <1>4, <1>6 DEF IsPage, CurrentPage, Target, GotoDest
<1>9. Inv'
  BY <1>1, <1>3, <1>4, <1>7, <1>8, GoodStep
<1> QED
  BY <1>4, <1>9 DEF h

LEMMA NextInv == Inv /\ [Next]_vars => Inv'
<1> SUFFICES ASSUME Inv, [Next]_vars PROVE Inv'
  OBVIOUS
<1>0. menu \subseteq Link /\ history \in History
  BY DEF Inv, ListIsBounded, TypeOK
<1>a. document = None => history.current = 0 /\ history.list = <<>>
  BY DEF Inv, ListIsBounded, Empty
<1>b. document # None => history.current \in 1 .. Len(history.list)
  BY InvIsGood DEF Good
<1>c. Len(history.list) \in Nat
  BY <1>0 DEF History
<1>1. CASE \E d \in Documents : SetDocument(d)
  BY <1>1, SetDocumentInv
<1>2. CASE document # None /\ \E p \in 0 .. NPages[document] - 1 : SetPage(p)
  BY <1>2, SetPageInv
<1>3. CASE \E link \in Named : FollowLink(link)
  BY <1>3, FollowLinkInv
<1>4. CASE GoBack
  <2>1. document # None /\ document' = document /\ menu' \subseteq Link
    BY <1>0, <1>4, <1>a DEF GoBack
  <2>2. PICK n \in 1 .. Len(history.list) : n = history.current - 1
    BY <1>4, <1>b, <1>c, <2>1 DEF GoBack
  <2>3. Activate([history EXCEPT !.current = n])
    BY <1>4, <2>2 DEF GoBack
  <2> QED
    BY <2>1, <2>3, ActivateInv
<1>5. CASE GoForward
  <2>1. document # None /\ document' = document /\ menu' \subseteq Link
    BY <1>0, <1>5, <1>a DEF GoForward
  <2>2. PICK n \in 1 .. Len(history.list) : n = history.current + 1
    BY <1>5, <1>b, <1>c, <2>1 DEF GoForward
  <2>3. Activate([history EXCEPT !.current = n])
    BY <1>5, <2>2 DEF GoForward
  <2> QED
    BY <2>1, <2>3, ActivateInv
<1>6. CASE \E link \in menu : GoToLink(link)
  <2>1. PICK link \in menu : GoToLink(link)
    BY <1>6
  <2>2. CASE Position(link) = 0
    BY <2>1, <2>2
    DEF GoToLink, Inv, ListIsBounded, TypeOK, CurrentShowsThePage, IsPage,
        CurrentPage, Target
  <2>3. CASE Position(link) # 0
    <3>1. Position(link) \in 1 .. Len(history.list)
      BY <1>0, <2>3, PositionFinds
    <3>2. document # None
      BY <1>a, <3>1
    <3>3. PICK n \in 1 .. Len(history.list) : n = Position(link)
      BY <3>1
    <3>4. Activate([history EXCEPT !.current = n])
      BY <2>1, <2>3, <3>3 DEF GoToLink
    <3>5. document' = document /\ menu' \subseteq Link
      BY <2>1 DEF GoToLink
    <3> QED
      BY <3>2, <3>4, <3>5, ActivateInv
  <2> QED
    BY <2>2, <2>3
<1>7. CASE ShowPopup
  <2>1. document # None
    BY <1>7, <1>a DEF ShowPopup
  <2>2. Good(history)
    BY <2>1, InvIsGood
  <2>3. PICK n \in 1 .. Len(history.list) : n = history.current
    BY <1>b, <2>1
  <2>4. SubSeq(history.list, 1, n - 1) \in Seq(Link)
    BY <2>2, <2>3 DEF Good, History
  <2>5. SubSeq(history.list, n + 1, Len(history.list)) \in Seq(Link)
    BY <2>2, <2>3 DEF Good, History
  <2>6. \A s \in Seq(Link) : ToSet(s) \subseteq Link
    BY DEF ToSet
  <2>7. menu' \subseteq Link
    BY <1>7, <2>3, <2>4, <2>5, <2>6 DEF ShowPopup
  <2> QED
    BY <1>7, <2>7
    DEF ShowPopup, Inv, ListIsBounded, TypeOK, CurrentShowsThePage, IsPage,
        CurrentPage, Target
<1>8. CASE Hide
  BY <1>8 DEF Hide, Inv, ListIsBounded, TypeOK, CurrentShowsThePage, IsPage,
        CurrentPage, Target
<1>9. CASE UNCHANGED vars
  BY <1>9 DEF vars, Inv, ListIsBounded, TypeOK, CurrentShowsThePage, IsPage,
        CurrentPage, Target
<1> QED
  BY <1>1, <1>2, <1>3, <1>4, <1>5, <1>6, <1>7, <1>8, <1>9 DEF Next, Walk

-----------------------------------------------------------------------------
(* The theorems *)

LEMMA SpecInv == Spec => []Inv
BY InitInv, NextInv, PTL DEF Spec

\* The list of ev-history.c never exceeds its bound, and its current link,
\* which the buttons and menus dereference, is always one of the list.
THEOREM ListStaysBounded == Spec => []ListIsBounded
<1>1. Inv => ListIsBounded
  BY DEF Inv
<1> QED
  BY <1>1, SpecInv, PTL

\* However a page was reached, by the history or past it, the current link is
\* the link to it.
THEOREM CurrentAlwaysShowsThePage == Spec => []CurrentShowsThePage
<1>1. Inv => CurrentShowsThePage
  BY DEF Inv
<1> QED
  BY <1>1, SpecInv, PTL

\* ev_history_activate_current_link lets nothing that it sets off add a link.
THEOREM WalkingNeverChangesTheList == Spec => WalkingKeepsTheList
<1>1. Inv /\ [Next]_vars => [Walk => history'.list = history.list]_vars
  <2> SUFFICES ASSUME Inv, Walk PROVE history'.list = history.list
    OBVIOUS
  <2>1. history \in History
    BY DEF Inv, ListIsBounded, TypeOK
  <2>2. \A n : [history EXCEPT !.current = n].list = history.list
    BY <2>1 DEF History
  <2>3. \A h : Activate(h) => history' = h
    BY FrozenStays DEF Activate
  <2>4. CASE GoBack
    BY <2>2, <2>3, <2>4 DEF GoBack
  <2>5. CASE GoForward
    BY <2>2, <2>3, <2>5 DEF GoForward
  <2>6. CASE \E link \in menu : GoToLink(link)
    BY <2>2, <2>3, <2>6 DEF GoToLink
  <2> QED
    BY <2>4, <2>5, <2>6 DEF Walk
<1> QED
  BY <1>1, SpecInv, PTL DEF Spec, WalkingKeepsTheList

\* ev_history_go_to_link: a link chosen in a menu is gone to if the history
\* still has it, and is without effect if not.
THEOREM MenuGoesToTheLink == Spec => GoesToTheLink
<1> DEFINE A == \A link \in menu : GoToLink(link) =>
                    IF link \in ToSet(history.list)
                    THEN /\ history'.list[history'.current] = link
                         /\ IsPage(Target(link)) => page' = Target(link)
                    ELSE UNCHANGED <<page, history>>
<1>1. Inv /\ [Next]_vars => [A]_vars
  <2> SUFFICES ASSUME Inv, NEW link \in menu, GoToLink(link)
               PROVE  IF link \in ToSet(history.list)
                      THEN /\ history'.list[history'.current] = link
                           /\ IsPage(Target(link)) => page' = Target(link)
                      ELSE UNCHANGED <<page, history>>
    OBVIOUS
  <2>1. history \in History
    BY DEF Inv, ListIsBounded, TypeOK
  <2>2. CASE link \notin ToSet(history.list)
    BY <2>1, <2>2, PositionFinds DEF GoToLink
  <2>3. CASE link \in ToSet(history.list)
    <3>1. PICK n : n = Position(link)
      OBVIOUS
    <3>2. n # 0 /\ n \in 1 .. Len(history.list) /\ history.list[n] = link
      BY <2>1, <2>3, <3>1, PositionFinds
    <3> DEFINE h == [history EXCEPT !.current = n]
    <3>3. h.list[h.current] = link
      BY <2>1, <3>2 DEF History
    <3>4. Activate(h)
      BY <3>1, <3>2 DEF GoToLink
    <3>5. history' = h /\ page' = GotoDest(link)
      BY <3>3, <3>4, FrozenStays DEF Activate
    <3> QED
      BY <2>3, <3>3, <3>5 DEF GotoDest
  <2> QED
    BY <2>2, <2>3
<1> QED
  BY <1>1, SpecInv, PTL DEF Spec, GoesToTheLink
=============================================================================
