-------------------------- MODULE TabManagerProofs --------------------------
(***************************************************************************)
(* Machine-checked proofs about TabManager, for every set of files, every  *)
(* number of tabs and every depth of the stack of closed ones: the types,  *)
(* that the notebook and the manager have the same tabs, that the manager  *)
(* is a TabStrip, that documents keep the references they have, and that a *)
(* session that is restored has the files that were saved.                 *)
(***************************************************************************)
EXTENDS TabManager, SequenceLemmas, FiniteSetTheorems, TLAPS

\* Every operation ends with an announcement of the active tab, or leaves both
\* alone; without this part TabStrip's announced could not be told.
Announced == announced = Active

Inv == TypeOK /\ PagesAreTabs /\ Announced

\* What an operation does to the stack of closed tabs, the documents and the
\* state file: nothing else depends on it.
Bookkeeping ==
    /\ reopen_stack \in Seq(Entry)
    /\ Len(reopen_stack) <= EV_TAB_MANAGER_REOPEN_STACK_MAX
    /\ doc_refs \in [Tabs -> Int]
    /\ saved \in Seq(Locations)
    /\ restoring \in Seq(Locations)

\* The tabs and the window.
Strip ==
    /\ tab \in Seq(Entry)
    /\ Len(tab) <= MaxTabs
    /\ tabs \in Seq(1 .. Len(tab))
    /\ active_index \in -1 .. Len(tabs) - 1
    /\ active_index = -1 <=> tabs = <<>>
    /\ announced \in Tabs \cup {None}
    /\ pages \in Seq(Tabs)
    /\ page \in Tabs \cup {None}
    /\ title \in Tabs \cup {None}
    /\ PagesAreTabs
    /\ Announced

LEMMA InvSplits == Inv <=> Strip /\ Bookkeeping
  BY DEF Inv, Strip, Bookkeeping, TypeOK

-----------------------------------------------------------------------------
(* The three ways in which the tabs change *)

\* What follows from the types: everything in the two lists is a tab, and the
\* active one is in the array.
LEMMA ActiveIsATab ==
    ASSUME Strip
    PROVE  /\ Len(tabs) \in Nat /\ DOMAIN tabs = 1 .. Len(tabs)
           /\ \A k \in DOMAIN tabs : tabs[k] \in 1 .. Len(tab) /\ tabs[k] \in Tabs
           /\ tabs # <<>> => /\ active_index \in 0 .. Len(tabs) - 1
                             /\ Active = tabs[active_index + 1]
           /\ tabs = <<>> => Active = None
           /\ Len(tab) \in Nat
           /\ None \notin Tabs
<1>1. Len(tab) \in Nat /\ Len(tabs) \in Nat /\ DOMAIN tabs = 1 .. Len(tabs)
  BY DEF Strip
<1>2. \A k \in DOMAIN tabs : tabs[k] \in 1 .. Len(tab)
  BY DEF Strip
<1>3. 1 .. Len(tab) \subseteq Tabs
  BY <1>1, TabsAssumption DEF Strip, Tabs
<1>4. tabs = <<>> <=> Len(tabs) = 0
  BY DEF Strip
<1>5. tabs # <<>> => active_index \in 0 .. Len(tabs) - 1
  BY <1>1, <1>4 DEF Strip
<1>6. None \notin Tabs
  BY TabsAssumption DEF Tabs
<1> QED BY <1>1, <1>2, <1>3, <1>4, <1>5, <1>6 DEF Active, ActiveOf, Strip

\* Another tab is selected.
LEMMA SelectingKeepsStrip ==
    ASSUME Strip, NEW k \in DOMAIN tabs,
           active_index' = k - 1, ActiveChanged(tabs[k]),
           UNCHANGED <<tab, tabs, pages>>
    PROVE  Strip' /\ TS!Select(k) /\ TitleStep
<1>1. /\ Len(tabs) \in Nat /\ DOMAIN tabs = 1 .. Len(tabs)
      /\ tabs[k] \in Tabs
  BY ActiveIsATab
<1>2. k - 1 \in 0 .. Len(tabs) - 1 /\ tabs # <<>>
  BY <1>1
<1>3. Active' = tabs[k]
  BY <1>1, <1>2 DEF Active, ActiveOf
<1>4. announced' = tabs[k] /\ page' = tabs[k] /\ title' = tabs[k]
  BY DEF ActiveChanged
<1>5. PagesAreTabs'
  BY DEF Strip, PagesAreTabs
<1>6. TS!Select(k)
  BY <1>3, <1>4 DEF TS!Select
<1>7. TitleStep
  BY <1>3, <1>4 DEF TitleStep
<1> QED BY <1>1, <1>2, <1>3, <1>4, <1>5, <1>6, <1>7 DEF Strip, Announced

\* A new tab is appended.
LEMMA AppendingKeepsStrip ==
    ASSUME Strip, NEW e \in Entry, Len(tab) + 1 \in Tabs,
           tab' = Append(tab, e), AppendTab(Len(tab) + 1)
    PROVE  Strip' /\ TS!Show(Len(tab) + 1) /\ TitleStep
<1> DEFINE t == Len(tab) + 1
<1>1. /\ Len(tabs) \in Nat /\ DOMAIN tabs = 1 .. Len(tabs) /\ Len(tab) \in Nat
      /\ \A k \in DOMAIN tabs : tabs[k] \in 1 .. Len(tab)
  BY ActiveIsATab
<1>2. /\ tab' \in Seq(Entry) /\ Len(tab') = t /\ t <= MaxTabs
  BY <1>1, TabsAssumption DEF Strip, Tabs
<1>3. tabs \in Seq(1 .. t)
  BY <1>1 DEF Strip
<1>4. /\ tabs' = Append(tabs, t) /\ pages' = Append(pages, t)
      /\ active_index' = Len(tabs)
      /\ announced' = t /\ page' = t /\ title' = t
  BY DEF AppendTab, ActiveChanged
<1>5. /\ tabs' \in Seq(1 .. t) /\ Len(tabs') = Len(tabs) + 1
      /\ \A k \in 1 .. Len(tabs) : tabs'[k] = tabs[k]
      /\ tabs'[Len(tabs) + 1] = t
      /\ DOMAIN tabs' = 1 .. Len(tabs) + 1
  BY <1>1, <1>3, <1>4
<1>6. Len(pages) = Len(tabs) /\ pages \in Seq(Tabs)
  BY DEF Strip, PagesAreTabs
<1>7. /\ pages' \in Seq(Tabs) /\ Len(pages') = Len(tabs) + 1
      /\ \A k \in 1 .. Len(tabs) : pages'[k] = pages[k]
      /\ pages'[Len(tabs) + 1] = t
      /\ DOMAIN pages' = 1 .. Len(tabs) + 1
  BY <1>1, <1>4, <1>6
<1>8. PagesAreTabs'
  <2>1. \A k \in DOMAIN tabs' : \E j \in DOMAIN pages' : pages'[j] = tabs'[k]
    <3> SUFFICES ASSUME NEW k \in DOMAIN tabs'
                 PROVE  \E j \in DOMAIN pages' : pages'[j] = tabs'[k]
      OBVIOUS
    <3>1. CASE k = Len(tabs) + 1
      BY <1>5, <1>7, <3>1
    <3>2. CASE k \in 1 .. Len(tabs)
      <4>1. PICK j \in DOMAIN pages : pages[j] = tabs[k]
        BY <1>1, <3>2 DEF Strip, PagesAreTabs
      <4>2. j \in 1 .. Len(tabs)
        BY <1>6, <4>1
      <4> QED BY <1>1, <1>5, <1>7, <3>2, <4>1, <4>2
    <3> QED BY <1>1, <1>5, <3>1, <3>2
  <2>2. \A j, k \in DOMAIN tabs' : tabs'[j] = tabs'[k] => j = k
    <3>1. \A k \in 1 .. Len(tabs) : tabs'[k] # t
      BY <1>1, <1>5
    <3>2. \A j, k \in 1 .. Len(tabs) : tabs'[j] = tabs'[k] => j = k
      BY <1>1, <1>5 DEF Strip, PagesAreTabs
    <3> QED BY <1>1, <1>5, <3>1, <3>2
  <2> QED BY <1>5, <1>7, <2>1, <2>2 DEF PagesAreTabs
<1>9. Active' = t
  BY <1>1, <1>4, <1>5 DEF Active, ActiveOf
<1>10. TS!Show(t)
  <2>1. \A k \in DOMAIN tabs : tabs[k] # t
    BY <1>1
  <2> QED BY <1>4, <1>9, <2>1 DEF TS!Show
<1> HIDE DEF t
<1>11. /\ active_index' \in -1 .. Len(tabs') - 1
       /\ tabs' # <<>> /\ active_index' # -1
  BY <1>1, <1>4, <1>5
<1>12. t \in Tabs
  BY DEF t
<1>13. Strip'
  BY <1>2, <1>4, <1>5, <1>7, <1>8, <1>9, <1>11, <1>12 DEF Strip, Announced
<1>14. TitleStep
  BY <1>4, <1>9 DEF TitleStep
<1> QED BY <1>10, <1>13, <1>14 DEF t

\* A tab is removed.
LEMMA RemovingKeepsStrip ==
    ASSUME Strip, NEW k \in DOMAIN tabs, RemoveTab(k)
    PROVE  Strip' /\ TS!Close(k) /\ TitleStep
<1> DEFINE t == tabs[k]
           n == Len(tabs)
           p == PageNum(t)
<1>1. /\ n \in Nat /\ DOMAIN tabs = 1 .. n /\ Len(tab) \in Nat
      /\ \A j \in DOMAIN tabs : tabs[j] \in 1 .. Len(tab) /\ tabs[j] \in Tabs
      /\ active_index \in 0 .. n - 1
      /\ Active = tabs[active_index + 1]
      /\ None \notin Tabs
      /\ k \in 1 .. n
  <2>1. tabs # <<>>
    OBVIOUS
  <2> QED BY <2>1, ActiveIsATab
<1>2. /\ tabs' = RemoveAt(tabs, k) /\ pages' = RemoveAt(pages, p)
      /\ tab' = tab
  BY DEF RemoveTab, PagesWithout
<1>3. /\ tabs' \in Seq(1 .. Len(tab)) /\ Len(tabs') = n - 1
      /\ \A j \in 1 .. n - 1 : tabs'[j] = IF j < k THEN tabs[j] ELSE tabs[j + 1]
  BY <1>2, RemoveAtIsShift DEF Strip
<1>4. DOMAIN tabs' = 1 .. n - 1
  BY <1>3
<1>5. /\ Len(pages) = n /\ pages \in Seq(Tabs) /\ DOMAIN pages = 1 .. n
  BY DEF Strip, PagesAreTabs
<1>6. p \in DOMAIN pages /\ pages[p] = t
  <2>1. \E j \in DOMAIN pages : pages[j] = t
    BY DEF Strip, PagesAreTabs
  <2> QED BY <2>1 DEF PageNum
<1>7. /\ pages' \in Seq(Tabs) /\ Len(pages') = n - 1
      /\ \A j \in 1 .. n - 1 : pages'[j] = IF j < p THEN pages[j] ELSE pages[j + 1]
  BY <1>2, <1>5, <1>6, RemoveAtIsShift
<1>8. DOMAIN pages' = 1 .. n - 1
  BY <1>7
<1> HIDE DEF p
<1>9. PagesAreTabs'
  <2>1. ASSUME NEW j \in DOMAIN tabs'
        PROVE  \E i \in DOMAIN pages' : pages'[i] = tabs'[j]
    <3>1. PICK l \in 1 .. n : l # k /\ tabs'[j] = tabs[l]
      <4>1. CASE j < k
        BY <1>1, <1>3, <1>4, <4>1
      <4>2. CASE ~ (j < k)
        <5>1. j + 1 \in 1 .. n /\ j + 1 # k /\ tabs'[j] = tabs[j + 1]
          BY <1>1, <1>3, <1>4, <4>2
        <5> QED BY <5>1
      <4> QED BY <4>1, <4>2
    <3>2. tabs[l] # t
      BY <1>1, <3>1 DEF Strip, PagesAreTabs
    <3>3. PICK i \in 1 .. n : pages[i] = tabs[l]
      BY <1>1, <1>5 DEF Strip, PagesAreTabs
    <3>4. i # p
      BY <1>6, <3>2, <3>3
    <3>5. CASE i < p
      BY <1>1, <1>5, <1>6, <1>7, <1>8, <3>1, <3>3, <3>5
    <3>6. CASE i > p
      <4>1. i - 1 \in 1 .. n - 1 /\ ~ (i - 1 < p) /\ i - 1 + 1 = i
        BY <1>1, <1>5, <1>6, <3>6
      <4> QED BY <1>7, <1>8, <3>1, <3>3, <4>1
    <3> QED BY <1>1, <1>5, <1>6, <3>4, <3>5, <3>6
  <2>2. ASSUME NEW i \in DOMAIN tabs', NEW j \in DOMAIN tabs', tabs'[i] = tabs'[j]
        PROVE  i = j
    <3> DEFINE src(l) == IF l < k THEN l ELSE l + 1
    <3>1. src(i) \in DOMAIN tabs /\ src(j) \in DOMAIN tabs
      BY <1>1, <1>4
    <3>2. tabs[src(i)] = tabs[src(j)]
      BY <1>3, <1>4, <2>2
    <3>3. src(i) = src(j)
      BY <3>1, <3>2 DEF Strip, PagesAreTabs
    <3> QED BY <1>1, <1>4, <3>3
  <2> QED BY <1>3, <1>7, <2>1, <2>2 DEF PagesAreTabs
<1>10. page \in Tabs \cup {None} /\ PageAfter(t) \in Tabs \cup {None}
  <2>1. page \in Tabs \cup {None}
    BY DEF Strip
  <2>2. \A j \in 1 .. n : pages[j] \in Tabs
    BY <1>5
  <2>3. p < n => p + 1 \in 1 .. n
    BY <1>1, <1>5, <1>6
  <2>4. p > 1 => p - 1 \in 1 .. n
    BY <1>1, <1>5, <1>6
  <2> QED BY <1>5, <2>1, <2>2, <2>3, <2>4 DEF PageAfter, p
<1>11. tabs' = <<>> <=> n = 1
  BY <1>1, <1>3
<1>12. \A j \in 1 .. n - 1 : tabs'[j] \in Tabs
  BY <1>1, <1>3
<1>13. CASE n = 1
  <2>1. /\ active_index' = -1 /\ announced' = None /\ page' = PageAfter(t)
        /\ title' = None
    BY <1>13 DEF RemoveTab
  <2>2. Active' = None
    BY <2>1 DEF Active, ActiveOf
  <2>3. k = 1 /\ active_index = 0
    BY <1>1, <1>13
  <2>4. tabs[k] = Active
    BY <1>1, <2>3
  <2>5. TS!Close(k)
    BY <1>2, <1>13, <2>1, <2>2, <2>4 DEF TS!Close, TS!Heir, TS!RemoveAt, RemoveAt
  <2>6. active_index' \in -1 .. Len(tabs') - 1
    BY <1>3, <1>13, <2>1
  <2> QED
    BY <1>2, <1>3, <1>7, <1>9, <1>10, <1>11, <1>13, <2>1, <2>2, <2>5, <2>6
    DEF Strip, Announced, TitleStep
<1>14. CASE n > 1 /\ active_index = k - 1
  <2> DEFINE heir == IF k - 1 > 0 THEN k - 2 ELSE 0
  <2>1. /\ active_index' = heir /\ announced' = tabs'[heir + 1]
        /\ page' = tabs'[heir + 1] /\ title' = tabs'[heir + 1]
    BY <1>1, <1>2, <1>14 DEF RemoveTab, ActiveChanged
  <2>2. heir \in 0 .. n - 2
    BY <1>1, <1>14
  <2>3. /\ Active' = tabs'[heir + 1] /\ tabs'[heir + 1] \in Tabs
    BY <1>1, <1>3, <1>12, <2>1, <2>2 DEF Active, ActiveOf
  <2>4. tabs'[heir + 1] = IF k = 1 THEN tabs[2] ELSE tabs[k - 1]
    BY <1>1, <1>3, <1>14
  <2>5. tabs[k] = Active
    BY <1>1, <1>14
  <2> HIDE DEF heir
  <2>6. TS!Close(k)
    <3>1. TS!Heir(k) = Active'
      BY <1>14, <2>3, <2>4 DEF TS!Heir
    <3>2. active_index' # -1 /\ announced' = Active'
      BY <1>1, <2>1, <2>2, <2>3
    <3> QED BY <1>2, <2>5, <3>1, <3>2 DEF TS!Close, TS!RemoveAt, RemoveAt
  <2>7. active_index' \in -1 .. Len(tabs') - 1 /\ active_index' # -1
    BY <1>1, <1>3, <2>1, <2>2
  <2>8. TitleStep
    BY <2>1, <2>3 DEF TitleStep
  <2>9. announced' = Active' /\ {announced', page', title'} \subseteq Tabs
    BY <2>1, <2>3
  <2> QED
    BY <1>2, <1>3, <1>7, <1>9, <1>11, <1>14, <2>6, <2>7, <2>8, <2>9
    DEF Strip, Announced
<1>15. CASE n > 1 /\ active_index # k - 1
  <2>1. /\ active_index' = IF active_index > k - 1 THEN active_index - 1
                                                   ELSE active_index
        /\ page' = PageAfter(t)
        /\ title' = ActiveOf(tabs', active_index)
        /\ announced' = announced
    <3>1. Len(tabs) # 1 /\ ~ (Len(tabs) > 1 /\ active_index = k - 1)
      BY <1>1, <1>15
    <3> QED BY <1>2, <3>1 DEF RemoveTab
  <2>2. /\ active_index' \in 0 .. n - 2
        /\ tabs'[active_index' + 1] = tabs[active_index + 1]
    <3>1. CASE active_index > k - 1
      BY <1>1, <1>3, <1>15, <2>1, <3>1
    <3>2. CASE active_index < k - 1
      BY <1>1, <1>3, <1>15, <2>1, <3>2
    <3> QED BY <1>1, <1>15, <3>1, <3>2
  <2>3. Active' = Active
    BY <1>1, <1>3, <2>2 DEF Active, ActiveOf
  <2>4. tabs[k] # Active
    <3>1. active_index + 1 \in DOMAIN tabs /\ active_index + 1 # k
      BY <1>1, <1>15
    <3> QED BY <1>1, <3>1 DEF Strip, PagesAreTabs
  <2>5. announced = Active /\ announced \in Tabs \cup {None}
    BY DEF Strip, Announced
  <2>6. TS!Close(k)
    BY <1>2, <2>1, <2>3, <2>4, <2>5 DEF TS!Close, TS!RemoveAt, RemoveAt
  <2>7. title' \in Tabs \cup {None}
    BY <1>1, <1>3, <1>12, <2>1 DEF ActiveOf
  <2>8. active_index' \in -1 .. Len(tabs') - 1 /\ active_index' # -1
    BY <1>1, <1>3, <2>2
  <2>9. TitleStep
    <3>1. CASE active_index > k - 1
      BY <1>3, <2>1, <2>3, <3>1 DEF TitleStep
    <3>2. CASE ~ (active_index > k - 1)
      BY <2>1, <3>2 DEF TitleStep, Active
    <3> QED BY <3>1, <3>2
  <2> QED
    BY <1>2, <1>3, <1>7, <1>9, <1>10, <1>11, <1>15, <2>1, <2>3, <2>5, <2>6, <2>7, <2>8, <2>9
    DEF Strip, Announced
<1> QED BY <1>1, <1>13, <1>14, <1>15

\* A tab is moved.
LEMMA ReorderingKeepsStrip ==
    ASSUME Strip, NEW i \in 0 .. Len(tabs) - 1, NEW j \in 0 .. Len(tabs) - 1,
           ReorderTab(i, j)
    PROVE  Strip' /\ TS!Rearrange /\ TitleStep
<1> DEFINE n == Len(tabs)
           t == tabs[i + 1]
           rest == RemoveAt(tabs, i + 1)
           \* where the entry at place l goes
           dst(l) == IF l = i + 1 THEN j + 1
                     ELSE IF l < i + 1 THEN (IF l < j + 1 THEN l ELSE l + 1)
                     ELSE (IF l - 1 < j + 1 THEN l - 1 ELSE l)
           \* and where that at place l comes from
           src(l) == IF l = j + 1 THEN i + 1
                     ELSE IF l < j + 1 THEN (IF l < i + 1 THEN l ELSE l + 1)
                     ELSE (IF l - 1 < i + 1 THEN l - 1 ELSE l)
<1>1. /\ n \in Nat /\ DOMAIN tabs = 1 .. n /\ Len(tab) \in Nat
      /\ \A l \in DOMAIN tabs : tabs[l] \in 1 .. Len(tab) /\ tabs[l] \in Tabs
      /\ active_index \in 0 .. n - 1
      /\ Active = tabs[active_index + 1]
      /\ i \in 0 .. n - 1 /\ j \in 0 .. n - 1
  <2>1. tabs # <<>>
    BY DEF Strip
  <2> QED BY <2>1, ActiveIsATab
<1>2. /\ i # j
      /\ tabs' = InsertAt(rest, j + 1, t)
      /\ active_index' = IndexAfterReorder(i, j)
      /\ tab' = tab /\ announced' = announced
      /\ pages' = pages /\ page' = page /\ title' = title
  BY DEF ReorderTab, windowVars
<1>3. /\ rest \in Seq(1 .. Len(tab)) /\ Len(rest) = n - 1
      /\ \A l \in 1 .. n - 1 : rest[l] = IF l < i + 1 THEN tabs[l] ELSE tabs[l + 1]
  <2>1. i + 1 \in DOMAIN tabs
    BY <1>1
  <2> QED BY <2>1, RemoveAtIsShift DEF Strip
<1> HIDE DEF rest
<1>4. /\ tabs' \in Seq(1 .. Len(tab)) /\ Len(tabs') = n
      /\ \A l \in 1 .. n : tabs'[l] = IF l < j + 1 THEN rest[l]
                                      ELSE IF l = j + 1 THEN t ELSE rest[l - 1]
  <2>1. i + 1 \in DOMAIN tabs
    BY <1>1
  <2>2. t \in 1 .. Len(tab)
    BY <1>1, <2>1
  <2>3. Len(rest) + 1 = n /\ j + 1 \in 1 .. Len(rest) + 1
    BY <1>1, <1>3
  <2> HIDE DEF t
  <2> DEFINE q == InsertAt(rest, j + 1, t)
  <2>4. /\ q \in Seq(1 .. Len(tab)) /\ Len(q) = Len(rest) + 1
        /\ \A l \in 1 .. Len(rest) + 1 :
             q[l] = IF l < j + 1 THEN rest[l] ELSE IF l = j + 1 THEN t ELSE rest[l - 1]
    <3> DEFINE S == 1 .. Len(tab)
    <3>1. rest \in Seq(S) /\ t \in S
      BY <1>3, <2>2
    <3> HIDE DEF S
    <3>2. /\ q \in Seq(S) /\ Len(q) = Len(rest) + 1
          /\ \A l \in 1 .. Len(rest) + 1 :
               q[l] = IF l < j + 1 THEN rest[l]
                      ELSE IF l = j + 1 THEN t ELSE rest[l - 1]
      BY <2>3, <3>1, InsertAtIsShift
    <3> QED BY <3>2 DEF S
  <2> HIDE DEF q
  <2>5. tabs' = q
    BY <1>2 DEF q, t
  <2> QED BY <2>3, <2>4, <2>5
<1>5. DOMAIN tabs' = 1 .. n
  BY <1>1, <1>4
<1>6. ASSUME NEW l \in 1 .. n
      PROVE  src(l) \in 1 .. n /\ tabs'[l] = tabs[src(l)]
  <2>1. CASE l < j + 1
    <3>1. l \in 1 .. n - 1 /\ tabs'[l] = rest[l]
      BY <1>1, <1>4, <2>1
    <3>2. rest[l] = IF l < i + 1 THEN tabs[l] ELSE tabs[l + 1]
      BY <1>3, <3>1
    <3> QED BY <1>1, <2>1, <3>1, <3>2
  <2>2. CASE l = j + 1
    BY <1>1, <1>4, <2>2
  <2>3. CASE l > j + 1
    <3>1. l - 1 \in 1 .. n - 1 /\ tabs'[l] = rest[l - 1] /\ l - 1 + 1 = l
      BY <1>1, <1>4, <2>3
    <3>2. rest[l - 1] = IF l - 1 < i + 1 THEN tabs[l - 1] ELSE tabs[l]
      BY <1>3, <3>1
    <3> QED BY <1>1, <2>3, <3>1, <3>2
  <2> QED BY <1>1, <2>1, <2>2, <2>3
<1>7. ASSUME NEW l \in 1 .. n
      PROVE  dst(l) \in 1 .. n /\ src(dst(l)) = l
  BY <1>1, <1>2
<1>8. ASSUME NEW l \in 1 .. n, NEW m \in 1 .. n, src(l) = src(m)
      PROVE  l = m
  BY <1>1, <1>8
<1>9. ASSUME NEW l \in 1 .. n
      PROVE  tabs'[dst(l)] = tabs[l]
  <2> DEFINE d == dst(l)
  <2>1. d \in 1 .. n /\ src(d) = l
    BY <1>7
  <2> HIDE DEF d
  <2>2. tabs'[d] = tabs[src(d)]
    BY <1>6, <2>1
  <2> QED BY <2>1, <2>2 DEF d
<1>10. active_index' = dst(active_index + 1) - 1
  <2>1. IndexAfterReorder(i, j) =
          IF active_index = i THEN j
          ELSE IF active_index > i /\ active_index <= j THEN active_index - 1
          ELSE IF active_index < i /\ active_index >= j THEN active_index + 1
          ELSE active_index
    BY <1>1 DEF IndexAfterReorder
  <2> QED BY <1>1, <1>2, <2>1
<1>11. active_index + 1 \in 1 .. n
  BY <1>1
<1>12. /\ dst(active_index + 1) \in 1 .. n
       /\ tabs'[dst(active_index + 1)] = tabs[active_index + 1]
  BY <1>7, <1>9, <1>11
<1> HIDE DEF src, dst
<1>13. /\ active_index' \in 0 .. n - 1 /\ active_index' # -1
       /\ active_index' + 1 = dst(active_index + 1)
  BY <1>1, <1>10, <1>12
<1>14. Active' = Active
  BY <1>1, <1>4, <1>12, <1>13 DEF Active, ActiveOf
<1>15. PagesAreTabs'
  <2>1. /\ Len(pages) = n
        /\ \A l \in 1 .. n : \E p \in DOMAIN pages : pages[p] = tabs[l]
        /\ \A l, m \in 1 .. n : tabs[l] = tabs[m] => l = m
    BY <1>1 DEF Strip, PagesAreTabs
  <2>2. \A l \in DOMAIN tabs' : \E p \in DOMAIN pages' : pages'[p] = tabs'[l]
    <3> SUFFICES ASSUME NEW l \in 1 .. n
                 PROVE  \E p \in DOMAIN pages : pages[p] = tabs'[l]
      BY <1>2, <1>5
    <3>1. src(l) \in 1 .. n /\ tabs'[l] = tabs[src(l)]
      BY <1>6
    <3>2. \E p \in DOMAIN pages : pages[p] = tabs[src(l)]
      BY <2>1, <3>1
    <3> QED BY <3>1, <3>2
  <2>3. \A l, m \in DOMAIN tabs' : tabs'[l] = tabs'[m] => l = m
    <3> SUFFICES ASSUME NEW l \in 1 .. n, NEW m \in 1 .. n, tabs'[l] = tabs'[m]
                 PROVE  l = m
      BY <1>5
    <3>1. /\ src(l) \in 1 .. n /\ tabs'[l] = tabs[src(l)]
          /\ src(m) \in 1 .. n /\ tabs'[m] = tabs[src(m)]
      BY <1>6
    <3>2. src(l) = src(m)
      BY <2>1, <3>1
    <3> QED BY <1>8, <3>2
  <2> QED BY <1>2, <1>4, <2>1, <2>2, <2>3 DEF PagesAreTabs
<1>16. TS!Rearrange
  <2>1. \A l \in DOMAIN tabs : \E m \in DOMAIN tabs' : tabs'[m] = tabs[l]
    BY <1>1, <1>5, <1>7, <1>9
  <2> QED BY <1>2, <1>4, <1>14, <2>1 DEF TS!Rearrange
<1>17. /\ active_index' \in -1 .. Len(tabs') - 1
       /\ tabs' # <<>>
  BY <1>1, <1>4, <1>11, <1>13
<1>18. TitleStep
  BY <1>2, <1>14 DEF TitleStep
<1> QED BY <1>2, <1>4, <1>13, <1>14, <1>15, <1>16, <1>17, <1>18 DEF Strip, Announced

-----------------------------------------------------------------------------
(* The stack of closed tabs *)

LEMMA PushedIsBounded ==
    ASSUME Bookkeeping, NEW e \in Entry
    PROVE  /\ Pushed(e) \in Seq(Entry)
           /\ Len(Pushed(e)) <= EV_TAB_MANAGER_REOPEN_STACK_MAX
           /\ DocRefsPushed(e) \in [Tabs -> Int]
<1> DEFINE stack == Append(reopen_stack, e)
<1>1. /\ stack \in Seq(Entry) /\ Len(stack) = Len(reopen_stack) + 1
      /\ Len(reopen_stack) \in Nat /\ stack # <<>>
  <2>1. /\ stack \in Seq(Entry) /\ Len(stack) = Len(reopen_stack) + 1
        /\ Len(reopen_stack) \in Nat
    BY DEF Bookkeeping
  <2>2. stack # <<>>
    BY <2>1
  <2> QED BY <2>1, <2>2
<1>2. Head(stack) \in Entry /\ Tail(stack) \in Seq(Entry) /\ Len(Tail(stack)) = Len(stack) - 1
  BY <1>1
<1>3. Head(stack).document \in Tabs
  BY <1>2 DEF Entry
<1> HIDE DEF stack
<1>4. Pushed(e) = IF Len(stack) > EV_TAB_MANAGER_REOPEN_STACK_MAX THEN Tail(stack) ELSE stack
  BY DEF Pushed, stack
<1>5. DocRefsPushed(e) \in [Tabs -> Int]
  <2> DEFINE d == Head(stack).document
  <2>1. [doc_refs EXCEPT ![d] = @ - 1] \in [Tabs -> Int]
    BY <1>3 DEF Bookkeeping
  <2> HIDE DEF d
  <2>2. DocRefsPushed(e) = [doc_refs EXCEPT ![d] = @ - 1] \/ DocRefsPushed(e) = doc_refs
    BY DEF DocRefsPushed, d, stack
  <2> QED BY <2>1, <2>2 DEF Bookkeeping
<1> QED BY <1>1, <1>2, <1>4, <1>5, TabsAssumption DEF Bookkeeping

-----------------------------------------------------------------------------
(* The steps *)

\* What one operation does: the invariant survives it, it is a step of TabStrip
\* or none, and it does to the title what TitleStep says.
Fits == Inv' /\ (TS!Next \/ UNCHANGED TS!vars) /\ TitleStep

LEMMA OpenFileFits ==
    ASSUME Inv, NEW location \in Locations, OpenFile(location),
           saved' \in Seq(Locations), restoring' \in Seq(Locations)
    PROVE  Fits
<1> DEFINE e == [document |-> Len(tab) + 1, location |-> location]
<1>1. Strip /\ Bookkeeping
  BY InvSplits
<1>2. /\ Len(tab) + 1 \in Tabs /\ tab' = Append(tab, e)
      /\ AppendTab(Len(tab) + 1)
      /\ doc_refs' = [doc_refs EXCEPT ![Len(tab) + 1] = 1]
      /\ reopen_stack' = reopen_stack
  BY DEF OpenFile
<1>3. e \in Entry
  BY <1>2 DEF Entry
<1> HIDE DEF e
<1>4. Strip' /\ TS!Show(Len(tab) + 1) /\ TitleStep
  BY <1>1, <1>2, <1>3, AppendingKeepsStrip
<1>5. Bookkeeping'
  BY <1>1, <1>2 DEF Bookkeeping
<1>6. Inv'
  BY <1>4, <1>5 DEF Inv, Strip, Bookkeeping, TypeOK
<1> QED BY <1>2, <1>4, <1>6 DEF Fits, TS!Next

LEMMA SelectFits ==
    ASSUME Inv, NEW k \in DOMAIN tabs,
           active_index' = k - 1, ActiveChanged(tabs[k]),
           UNCHANGED <<tab, tabs, reopen_stack, pages, doc_refs>>,
           saved' \in Seq(Locations), restoring' \in Seq(Locations)
    PROVE  Fits
<1>1. Strip /\ Bookkeeping
  BY InvSplits
<1>2. Strip' /\ TS!Select(k) /\ TitleStep
  BY <1>1, SelectingKeepsStrip
<1>3. Bookkeeping'
  BY <1>1 DEF Bookkeeping
<1>4. Inv'
  BY <1>2, <1>3 DEF Inv, Strip, Bookkeeping, TypeOK
<1> QED BY <1>2, <1>4 DEF Fits, TS!Next

LEMMA FocusFileFits ==
    ASSUME Inv, NEW location \in Locations, FocusFile(location),
           saved' \in Seq(Locations), restoring' \in Seq(Locations)
    PROVE  Fits
<1>1. PICK k \in DOMAIN tabs : SetActive(k)
  BY DEF FocusFile
<1> QED BY <1>1, SelectFits DEF SetActive

LEMMA RemoveTabFits ==
    ASSUME Inv, NEW k \in DOMAIN tabs, RemoveTab(k), UNCHANGED sessionVars
    PROVE  Fits
<1>1. Strip /\ Bookkeeping
  BY InvSplits
<1>2. Strip' /\ TS!Close(k) /\ TitleStep
  BY <1>1, RemovingKeepsStrip
<1>3. tab[tabs[k]] \in Entry
  BY <1>1, ActiveIsATab DEF Strip
<1>4. reopen_stack' = Pushed(tab[tabs[k]]) /\ doc_refs' = DocRefsPushed(tab[tabs[k]])
  BY DEF RemoveTab
<1>5. Bookkeeping'
  BY <1>1, <1>3, <1>4, PushedIsBounded DEF Bookkeeping, sessionVars
<1>6. Inv'
  BY <1>2, <1>5 DEF Inv, Strip, Bookkeeping, TypeOK
<1> QED BY <1>2, <1>6 DEF Fits, TS!Next

LEMMA ReopenFits ==
    ASSUME Inv, ReopenLastClosedTab, UNCHANGED sessionVars
    PROVE  Fits
<1> DEFINE e == Last(reopen_stack)
<1>1. Strip /\ Bookkeeping
  BY InvSplits
<1>2. /\ Len(tab) + 1 \in Tabs /\ tab' = Append(tab, e)
      /\ AppendTab(Len(tab) + 1)
      /\ doc_refs' = [doc_refs EXCEPT ![e.document] = @ - 1]
      /\ reopen_stack' = Front(reopen_stack)
      /\ reopen_stack # <<>>
  BY DEF ReopenLastClosedTab
<1>3. e \in Entry
  BY <1>1, <1>2 DEF Bookkeeping, Last
<1>4. Front(reopen_stack) \in Seq(Entry) /\ Len(Front(reopen_stack)) = Len(reopen_stack) - 1
  BY <1>1, <1>2, FrontIsShorter DEF Bookkeeping
<1> HIDE DEF e
<1>5. Strip' /\ TS!Show(Len(tab) + 1) /\ TitleStep
  BY <1>1, <1>2, <1>3, AppendingKeepsStrip
<1>6. e.document \in Tabs
  BY <1>3 DEF Entry
<1>7. Len(reopen_stack) \in Nat
  BY <1>1 DEF Bookkeeping
<1>8. Bookkeeping'
  BY <1>1, <1>2, <1>4, <1>6, <1>7, TabsAssumption DEF Bookkeeping, sessionVars
<1>9. Inv'
  BY <1>5, <1>8 DEF Inv, Strip, Bookkeeping, TypeOK
<1> QED BY <1>2, <1>5, <1>9 DEF Fits, TS!Next

LEMMA ReorderFits ==
    ASSUME Inv, NEW i \in 0 .. Len(tabs) - 1, NEW j \in 0 .. Len(tabs) - 1,
           ReorderTab(i, j), UNCHANGED sessionVars
    PROVE  Fits
<1>1. Strip /\ Bookkeeping
  BY InvSplits
<1>2. Strip' /\ TS!Rearrange /\ TitleStep
  BY <1>1, ReorderingKeepsStrip
<1>3. Bookkeeping'
  BY <1>1 DEF ReorderTab, Bookkeeping, sessionVars
<1>4. Inv'
  BY <1>2, <1>3 DEF Inv, Strip, Bookkeeping, TypeOK
<1> QED BY <1>2, <1>4 DEF Fits, TS!Next

\* Steps that leave the strip alone.
LEMMA QuietStepFits ==
    ASSUME Inv, UNCHANGED <<tab, tabs, active_index, announced, pages, title>>,
           page' \in Tabs \cup {None}, Bookkeeping'
    PROVE  Fits
<1>1. Strip
  BY InvSplits
<1>2. Active' = Active
  BY DEF Active, ActiveOf
<1>3. PagesAreTabs'
  BY <1>1 DEF Strip, PagesAreTabs
<1>4. Strip'
  BY <1>1, <1>2, <1>3 DEF Strip, Announced
<1>5. Inv'
  BY <1>4 DEF Inv, Strip, Bookkeeping, TypeOK
<1> QED BY <1>2, <1>5 DEF Fits, TS!vars, TitleStep

\* A turn of the loop that opens the files of a session.
LEMMA LoadSessionFits ==
    ASSUME Inv, LoadSession
    PROVE  Fits
<1> DEFINE location == Head(restoring)
<1>1. saved \in Seq(Locations) /\ restoring \in Seq(Locations) /\ restoring # <<>>
  BY DEF LoadSession, Inv, TypeOK
<1>2. location \in Locations /\ saved' \in Seq(Locations) /\ restoring' \in Seq(Locations)
  BY <1>1 DEF LoadSession
<1>3. \/ OpenFile(location)
      \/ FocusFile(location)
      \/ UNCHANGED <<managerVars, windowVars, doc_refs>>
  BY DEF LoadSession
<1> HIDE DEF location
<1>4. CASE OpenFile(location)
  BY <1>2, <1>4, OpenFileFits
<1>5. CASE FocusFile(location)
  BY <1>2, <1>5, FocusFileFits
<1>6. CASE UNCHANGED <<managerVars, windowVars, doc_refs>>
  <2>1. Bookkeeping' /\ page' \in Tabs \cup {None}
    BY <1>2, <1>6 DEF managerVars, windowVars, Bookkeeping, Inv, TypeOK
  <2> QED BY <1>6, <2>1, QuietStepFits DEF managerVars, windowVars
<1> QED BY <1>3, <1>4, <1>5, <1>6

\* The program starts again.
LEMMA RestartFits ==
    ASSUME Inv, Restart
    PROVE  Fits
<1>1. /\ tab' = <<>> /\ tabs' = <<>> /\ active_index' = -1 /\ reopen_stack' = <<>>
      /\ announced' = None /\ pages' = <<>> /\ page' = None /\ title' = None
      /\ doc_refs' = [t \in Tabs |-> 0]
      /\ restoring' = saved /\ saved' = saved
  BY DEF Restart, StartWith
<1>2. Active' = None
  BY <1>1 DEF Active, ActiveOf
<1>3. TypeOK'
  BY <1>1, TabsAssumption DEF Inv, TypeOK
<1>4. PagesAreTabs'
  BY <1>1 DEF PagesAreTabs
<1>5. TS!Restart
  BY <1>1, <1>2 DEF TS!Restart
<1> QED BY <1>1, <1>2, <1>3, <1>4, <1>5 DEF Fits, Inv, Announced, TS!Next, TitleStep

LEMMA ClearFits ==
    ASSUME Inv, ClearReopenStack, UNCHANGED sessionVars
    PROVE  Fits
<1> DEFINE kept(d) == {k \in DOMAIN reopen_stack : reopen_stack[k].document = d}
<1>1. ASSUME NEW d \in Tabs PROVE doc_refs[d] - Cardinality(kept(d)) \in Int
  <2>1. DOMAIN reopen_stack = 1 .. Len(reopen_stack) /\ Len(reopen_stack) \in Nat
    BY DEF Inv, TypeOK
  <2>2. IsFiniteSet(1 .. Len(reopen_stack))
    BY <2>1, FS_Interval
  <2>3. IsFiniteSet(kept(d))
    BY <2>1, <2>2, FS_Subset
  <2>4. Cardinality(kept(d)) \in Nat
    BY <2>3, FS_CardinalityType
  <2>5. doc_refs[d] \in Int
    BY DEF Inv, TypeOK
  <2> HIDE DEF kept
  <2> QED BY <2>4, <2>5
<1>2. /\ doc_refs' = [d \in Tabs |-> doc_refs[d] - Cardinality(kept(d))]
      /\ reopen_stack' = <<>>
      /\ UNCHANGED <<tab, tabs, active_index, announced, windowVars>>
  BY DEF ClearReopenStack
<1> HIDE DEF kept
<1>3. Bookkeeping'
  <2>1. doc_refs' \in [Tabs -> Int]
    BY <1>1, <1>2
  <2>2. Len(reopen_stack') <= EV_TAB_MANAGER_REOPEN_STACK_MAX /\ reopen_stack' \in Seq(Entry)
    BY <1>2, TabsAssumption
  <2> QED BY <2>1, <2>2 DEF Bookkeeping, sessionVars, Inv, TypeOK
<1>4. page' \in Tabs \cup {None}
  BY <1>2 DEF windowVars, Inv, TypeOK
<1> QED BY <1>2, <1>3, <1>4, QuietStepFits DEF windowVars

LEMMA OperationFits ==
    ASSUME Inv, Operation, UNCHANGED sessionVars
    PROVE  Fits
<1>1. saved' \in Seq(Locations) /\ restoring' \in Seq(Locations)
  BY DEF sessionVars, Inv, TypeOK
<1>2. Strip
  BY InvSplits
<1>3. /\ Len(tabs) \in Nat /\ DOMAIN tabs = 1 .. Len(tabs)
      /\ tabs # <<>> => active_index \in 0 .. Len(tabs) - 1
  BY <1>2, ActiveIsATab
<1>4. ASSUME NEW location \in Locations, OpenFile(location) PROVE Fits
  BY <1>1, <1>4, OpenFileFits
<1>5. ASSUME NEW location \in Locations, FocusFile(location) PROVE Fits
  BY <1>1, <1>5, FocusFileFits
<1>6. CASE SelectNext
  <2> DEFINE i == (active_index + 1) % Len(tabs)
  <2>1. Len(tabs) >= 2 /\ tabs # <<>>
    BY <1>6 DEF SelectNext
  <2>2. i \in 0 .. Len(tabs) - 1
    BY <1>3, <2>1
  <2>3. /\ active_index' = i /\ ActiveChanged(tabs[i + 1])
        /\ UNCHANGED <<tab, tabs, reopen_stack, pages, doc_refs>>
    BY <1>6 DEF SelectNext
  <2> HIDE DEF i
  <2>4. i + 1 \in DOMAIN tabs /\ active_index' = (i + 1) - 1
    BY <1>3, <2>2, <2>3
  <2> QED BY <1>1, <2>3, <2>4, SelectFits
<1>7. CASE SelectPrev
  <2> DEFINE i == IF active_index <= 0 THEN Len(tabs) - 1 ELSE active_index - 1
  <2>1. Len(tabs) >= 2 /\ tabs # <<>>
    BY <1>7 DEF SelectPrev
  <2>2. i \in 0 .. Len(tabs) - 1
    BY <1>3, <2>1
  <2>3. /\ active_index' = i /\ ActiveChanged(tabs[i + 1])
        /\ UNCHANGED <<tab, tabs, reopen_stack, pages, doc_refs>>
    BY <1>7 DEF SelectPrev
  <2> HIDE DEF i
  <2>4. i + 1 \in DOMAIN tabs /\ active_index' = (i + 1) - 1
    BY <1>3, <2>2, <2>3
  <2> QED BY <1>1, <2>3, <2>4, SelectFits
<1>8. ASSUME NEW j \in DOMAIN pages, ClickClose(j) PROVE Fits
  BY <1>8, RemoveTabFits DEF ClickClose
<1>9. ASSUME NEW j \in DOMAIN pages, ClickLabel(j) PROVE Fits
  <2>1. page' \in Tabs \cup {None}
    BY <1>2, <1>9 DEF ClickLabel, Strip
  <2>2. Bookkeeping'
    BY <1>1, <1>9 DEF ClickLabel, managerVars, Bookkeeping, Inv, TypeOK
  <2> QED BY <1>9, <2>1, <2>2, QuietStepFits DEF ClickLabel, managerVars
<1>10. CASE CloseActiveTab
  BY <1>10, RemoveTabFits DEF CloseActiveTab
<1>11. ASSUME NEW i \in 0 .. Len(tabs) - 1, NEW j \in 0 .. Len(tabs) - 1,
              ReorderTab(i, j)
       PROVE  Fits
  BY <1>11, ReorderFits
<1>12. CASE ReopenLastClosedTab
  BY <1>12, ReopenFits
<1>13. CASE ClearReopenStack
  BY <1>13, ClearFits
<1> QED
  BY <1>4, <1>5, <1>6, <1>7, <1>8, <1>9, <1>10, <1>11, <1>12, <1>13 DEF Operation

\* Every step of the tabbed window keeps the invariant and is one of TabStrip.
LEMMA StepFits ==
    ASSUME Inv, [Next]_vars
    PROVE  Fits
<1>1. CASE restoring = <<>> /\ Operation /\ UNCHANGED sessionVars
  BY <1>1, OperationFits
<1>2. CASE SaveState
  <2>1. FilesOfTabs \in Seq(Locations)
    <3>1. Strip
      BY InvSplits
    <3>2. \A k \in 1 .. Len(tabs) : tab[tabs[k]].location \in Locations
      <4> SUFFICES ASSUME NEW k \in 1 .. Len(tabs)
                   PROVE  tab[tabs[k]].location \in Locations
        OBVIOUS
      <4>1. tabs[k] \in 1 .. Len(tab) /\ tab \in Seq(Entry)
        BY <3>1, ActiveIsATab DEF Strip
      <4>2. tab[tabs[k]] \in Entry
        BY <4>1
      <4> QED BY <4>2 DEF Entry
    <3>3. Len(tabs) \in Nat /\ DOMAIN tabs = 1 .. Len(tabs)
      BY <3>1, ActiveIsATab
    <3> QED BY <3>2, <3>3 DEF FilesOfTabs
  <2>2. Bookkeeping' /\ page' \in Tabs \cup {None}
    BY <1>2, <2>1 DEF SaveState, managerVars, windowVars, Bookkeeping, Inv, TypeOK
  <2> QED BY <1>2, <2>2, QuietStepFits DEF SaveState, managerVars, windowVars
<1>3. CASE Restart
  BY <1>3, RestartFits
<1>4. CASE LoadSession
  BY <1>4, LoadSessionFits
<1>5. CASE UNCHANGED vars
  <2>1. Bookkeeping' /\ page' \in Tabs \cup {None}
    BY <1>5 DEF vars, Bookkeeping, Inv, TypeOK
  <2> QED BY <1>5, <2>1, QuietStepFits DEF vars
<1> QED BY <1>1, <1>2, <1>3, <1>4, <1>5 DEF Next

LEMMA InitFits == Init => Inv /\ TS!Init
<1> SUFFICES ASSUME Init PROVE Inv /\ TS!Init
  OBVIOUS
<1>1. Active = None
  BY DEF Init, Active, ActiveOf
<1>2. TypeOK
  BY TabsAssumption DEF Init, TypeOK
<1>3. PagesAreTabs
  BY DEF Init, PagesAreTabs
<1> QED BY <1>1, <1>2, <1>3 DEF Init, Inv, Announced, TS!Init

-----------------------------------------------------------------------------
(* The references to documents.  HoldersOf counts tabs and entries together; *)
(* a step is easier to follow with the two counts apart.                     *)

\* The tabs that a document is shown in, and the entries that keep it.
TabsOf(tb, d) == {t \in DOMAIN tb : tb[t].document = d}
EntriesOf(d) == {e \in Entry : e.document = d}

\* How many tabs and how many entries of the stack hold a document.
Held(d) == Cardinality(Places(tabs, TabsOf(tab, d)))
Kept(d) == Cardinality(Places(reopen_stack, EntriesOf(d)))

\* HoldersOf of the array, the stack and the tabs that are given.
Holders(tb, ts, st, d) ==
    {k \in DOMAIN ts : tb[ts[k]].document = d}
      \cup {-k : k \in {j \in DOMAIN st : st[j].document = d}}

Owned(d) == doc_refs[d] = Held(d) + Kept(d)

\* A document is named by the tab that it was opened for: one that a tab or an
\* entry holds is no later one, and the document of a new tab is in no hand yet.
Existing == {e \in Entry : e.document <= Len(tab)}
DocumentsExist == tab \in Seq(Existing) /\ reopen_stack \in Seq(Existing)

LEMMA HoldersAreCounted ==
    ASSUME NEW n \in Nat, NEW tb, DOMAIN tb = 1 .. n,
           NEW ts \in Seq(1 .. n), NEW st \in Seq(Entry), NEW d
    PROVE  Cardinality(Holders(tb, ts, st, d)) =
             Cardinality(Places(ts, TabsOf(tb, d))) + Cardinality(Places(st, EntriesOf(d)))
<1> DEFINE A == Places(ts, TabsOf(tb, d))
           B == Places(st, EntriesOf(d))
           C == {-k : k \in B}
           f == [k \in B |-> -k]
<1>1. /\ DOMAIN ts = 1 .. Len(ts) /\ Len(ts) \in Nat
      /\ DOMAIN st = 1 .. Len(st) /\ Len(st) \in Nat
      /\ \A k \in DOMAIN ts : ts[k] \in 1 .. n
      /\ \A k \in DOMAIN st : st[k] \in Entry
  OBVIOUS
<1>2. A = {k \in DOMAIN ts : tb[ts[k]].document = d}
  BY <1>1 DEF Places, TabsOf
<1>3. B = {j \in DOMAIN st : st[j].document = d}
  BY <1>1 DEF Places, EntriesOf
<1>4. /\ IsFiniteSet(A) /\ Cardinality(A) \in Nat
      /\ IsFiniteSet(B) /\ Cardinality(B) \in Nat
  BY PlacesAreFinite
<1>5. /\ \A k \in A : k \in Nat \ {0}
      /\ \A k \in B : k \in Nat \ {0}
  BY <1>1 DEF Places
<1> HIDE DEF A, B
<1>6. f \in Bijection(B, C)
  <2>1. f \in [B -> C]
    OBVIOUS
  <2>2. \A k, l \in B : f[k] = f[l] => k = l
    BY <1>5
  <2>3. \A c \in C : \E k \in B : f[k] = c
    OBVIOUS
  <2> HIDE DEF f, C
  <2>4. f \in Injection(B, C)
    BY <2>1, <2>2 DEF Injection, IsInjective
  <2>5. f \in Surjection(B, C)
    BY <2>1, <2>3 DEF Surjection
  <2> QED BY <2>4, <2>5 DEF Bijection
<1>7. IsFiniteSet(C) /\ Cardinality(C) = Cardinality(B)
  BY <1>4, <1>6, FS_Bijection DEF ExistsBijection
<1>8. A \cap C = {}
  BY <1>5
<1> HIDE DEF C
<1>9. Cardinality(A \cup C) = Cardinality(A) + Cardinality(C)
  <2>1. Cardinality(A \cap C) = 0
    BY <1>8, FS_EmptySet
  <2>2. Cardinality(A \cup C) =
          Cardinality(A) + Cardinality(C) - Cardinality(A \cap C)
    BY <1>4, <1>7, FS_Union
  <2> QED BY <1>4, <1>7, <2>1, <2>2
<1>10. Holders(tb, ts, st, d) = A \cup C
  BY <1>2, <1>3 DEF Holders, C
<1> QED BY <1>7, <1>9, <1>10 DEF A, B

\* DocumentsAreOwned in terms of the two counts, before and after a step.
LEMMA OwnedMeansCounted ==
    ASSUME Inv
    PROVE  /\ DocumentsAreOwned <=> \A d \in Tabs : Owned(d)
           /\ \A d \in Tabs : Held(d) \in Nat /\ Kept(d) \in Nat /\ doc_refs[d] \in Int
<1>1. /\ Len(tab) \in Nat /\ DOMAIN tab = 1 .. Len(tab)
      /\ tabs \in Seq(1 .. Len(tab)) /\ reopen_stack \in Seq(Entry)
      /\ doc_refs \in [Tabs -> Int]
  BY DEF Inv, TypeOK
<1>2. ASSUME NEW d
      PROVE  Cardinality(HoldersOf(d)) = Held(d) + Kept(d)
  <2>1. Cardinality(Holders(tab, tabs, reopen_stack, d)) =
          Cardinality(Places(tabs, TabsOf(tab, d)))
            + Cardinality(Places(reopen_stack, EntriesOf(d)))
    BY ONLY <1>1, HoldersAreCounted
  <2> QED BY ONLY <2>1 DEF HoldersOf, Holders, Held, Kept
<1>3. \A d : Held(d) \in Nat /\ Kept(d) \in Nat
  BY <1>1, PlacesAreFinite DEF Held, Kept
<1> QED BY <1>1, <1>2, <1>3 DEF DocumentsAreOwned, Owned

LEMMA OwnedMeansCountedNext ==
    ASSUME Inv'
    PROVE  DocumentsAreOwned' <=> \A d \in Tabs : Owned(d)'
<1>1. /\ Len(tab') \in Nat /\ DOMAIN tab' = 1 .. Len(tab')
      /\ tabs' \in Seq(1 .. Len(tab')) /\ reopen_stack' \in Seq(Entry)
      /\ doc_refs' \in [Tabs -> Int]
  BY DEF Inv, TypeOK
<1>2. ASSUME NEW d
      PROVE  Cardinality(HoldersOf(d)') = Held(d)' + Kept(d)'
  <2>1. Cardinality(Holders(tab', tabs', reopen_stack', d)) =
          Cardinality(Places(tabs', TabsOf(tab', d)))
            + Cardinality(Places(reopen_stack', EntriesOf(d)))
    BY ONLY <1>1, HoldersAreCounted
  <2> QED BY ONLY <2>1 DEF HoldersOf, Holders, Held, Kept
<1> QED BY <1>2 DEF DocumentsAreOwned, Owned

\* A step keeps the balance of every document that has it.
Balanced == \A d \in Tabs : Owned(d) => Owned(d)'

LEMMA SameBalance ==
    ASSUME UNCHANGED <<tab, tabs, reopen_stack, doc_refs>>, DocumentsExist
    PROVE  Balanced /\ DocumentsExist'
BY DEF Balanced, Owned, Held, Kept, DocumentsExist, Existing

LEMMA OpenFileBalances ==
    ASSUME Inv, DocumentsExist, NEW location \in Locations, OpenFile(location)
    PROVE  Balanced /\ DocumentsExist'
<1> DEFINE n == Len(tab)
           t == n + 1
           e == [document |-> t, location |-> location]
<1>1. /\ t \in Tabs /\ tab' = Append(tab, e) /\ tabs' = Append(tabs, t)
      /\ doc_refs' = [doc_refs EXCEPT ![t] = 1] /\ reopen_stack' = reopen_stack
  BY DEF OpenFile, AppendTab
<1>2. /\ n \in Nat /\ tab \in Seq(Entry) /\ DOMAIN tab = 1 .. n
      /\ tabs \in Seq(1 .. n) /\ \A k \in DOMAIN tabs : tabs[k] \in 1 .. n
      /\ doc_refs \in [Tabs -> Int]
  BY DEF Inv, TypeOK
<1>3. /\ tab \in Seq(Existing) /\ \A k \in DOMAIN tab : tab[k] \in Existing
      /\ reopen_stack \in Seq(Existing)
      /\ \A k \in DOMAIN reopen_stack : reopen_stack[k] \in Existing
  BY DEF DocumentsExist
<1>4. e \in Entry
  BY <1>1 DEF Entry
<1> HIDE DEF e
<1>5. /\ DOMAIN tab' = 1 .. t /\ tab'[t] = e /\ e.document = t
      /\ \A k \in 1 .. n : tab'[k] = tab[k]
  BY <1>1, <1>2, <1>4 DEF e
<1>6. ASSUME NEW d \in Tabs, Owned(d) PROVE Owned(d)'
  <2> DEFINE X == TabsOf(tab, d)
             Y == TabsOf(tab', d)
  <2>1. tabs \in Seq(1 .. t) /\ t \in 1 .. t
    BY <1>2
  <2>2. Held(d)' = Cardinality(Places(tabs, Y)) + (IF t \in Y THEN 1 ELSE 0)
    <3> HIDE DEF Y
    <3>1. Cardinality(Places(Append(tabs, t), Y)) =
            Cardinality(Places(tabs, Y)) + (IF t \in Y THEN 1 ELSE 0)
      BY <2>1, AppendCounts
    <3> QED BY <1>1, <3>1 DEF Held, Y
  <2>3. Kept(d)' = Kept(d)
    BY <1>1 DEF Kept
  <2>4. \A k \in 1 .. n : k \in X <=> k \in Y
    BY <1>2, <1>5 DEF TabsOf
  <2>5. Places(tabs, Y) = Places(tabs, X)
    BY <1>2, <2>4 DEF Places
  <2>6. t \in Y <=> d = t
    BY <1>2, <1>5 DEF TabsOf
  <2>7. CASE d = t
    <3>1. \A k \in 1 .. n : k \notin X
      BY <1>2, <1>3, <2>7 DEF TabsOf, Existing
    <3>2. Places(tabs, X) = {}
      BY <1>2, <3>1 DEF Places
    <3>3. Places(reopen_stack, EntriesOf(d)) = {}
      BY <1>2, <1>3, <2>7 DEF Places, EntriesOf, Existing
    <3>4. Held(d)' = 1 /\ Kept(d)' = 0
      <4>1. Cardinality(Places(tabs, X)) = 0
        BY <3>2, FS_EmptySet
      <4>2. Kept(d) = 0
        BY <3>3, FS_EmptySet DEF Kept
      <4> HIDE DEF X, Y
      <4> QED BY <2>2, <2>3, <2>5, <2>6, <2>7, <4>1, <4>2
    <3>5. doc_refs'[d] = 1
      BY <1>1, <1>2, <2>7
    <3> QED BY <3>4, <3>5 DEF Owned
  <2>8. CASE d # t
    <3>1. doc_refs'[d] = doc_refs[d]
      BY <1>1, <1>2, <2>8
    <3>2. Held(d)' = Held(d)
      <4>1. Held(d) \in Nat
        BY OwnedMeansCounted
      <4> QED BY <2>2, <2>5, <2>6, <2>8, <4>1 DEF Held
    <3> QED BY <1>6, <2>3, <3>1, <3>2 DEF Owned
  <2> QED BY <2>7, <2>8
<1>7. DocumentsExist'
  <2>1. Len(tab') = t
    BY <1>1, <1>2, <1>4
  <2>2. e \in Existing' /\ \A x \in Existing : x \in Existing'
    <3>1. Existing' = {x \in Entry : x.document <= t}
      BY <2>1 DEF Existing
    <3>2. \A x \in Entry : x.document \in Int
      BY TabsAssumption DEF Entry, Tabs
    <3>3. \A x \in Existing : x \in Entry /\ x.document <= n
      BY DEF Existing
    <3> QED BY <1>2, <1>4, <1>5, <3>1, <3>2, <3>3
  <2>3. Existing' \subseteq Entry
    BY DEF Existing
  <2>4. tab \in Seq(Existing') /\ reopen_stack \in Seq(Existing')
    BY <1>3, <2>2
  <2> QED BY <1>1, <2>2, <2>4 DEF DocumentsExist
<1> QED BY <1>6, <1>7 DEF Balanced

LEMMA RemoveTabBalances ==
    ASSUME Inv, DocumentsExist, NEW k \in DOMAIN tabs, RemoveTab(k)
    PROVE  Balanced /\ DocumentsExist'
<1> DEFINE e == tab[tabs[k]]
           stack == Append(reopen_stack, e)
           dropped == Len(stack) > EV_TAB_MANAGER_REOPEN_STACK_MAX
<1>1. /\ tabs' = RemoveAt(tabs, k) /\ tab' = tab
      /\ reopen_stack' = Pushed(e) /\ doc_refs' = DocRefsPushed(e)
  BY DEF RemoveTab
<1>2. /\ Len(tab) \in Nat /\ tab \in Seq(Entry) /\ DOMAIN tab = 1 .. Len(tab)
      /\ tabs \in Seq(1 .. Len(tab)) /\ reopen_stack \in Seq(Entry)
      /\ doc_refs \in [Tabs -> Int]
  BY DEF Inv, TypeOK
<1>3. tabs[k] \in DOMAIN tab
  BY <1>2
<1>4. e \in Entry /\ e \in Existing
  BY <1>2, <1>3 DEF DocumentsExist
<1> HIDE DEF e
<1>5. /\ stack \in Seq(Entry) /\ Len(stack) = Len(reopen_stack) + 1
      /\ stack \in Seq(Existing)
      /\ Len(reopen_stack) \in Nat
  BY <1>2, <1>4 DEF DocumentsExist
<1>6. stack # <<>>
  BY <1>5
<1>7. /\ Head(stack) \in Entry /\ Tail(stack) \in Seq(Entry)
      /\ Tail(stack) \in Seq(Existing)
  BY <1>5, <1>6
<1>8. Head(stack).document \in Tabs
  BY <1>7 DEF Entry
<1> HIDE DEF stack
<1>9. reopen_stack' = IF dropped THEN Tail(stack) ELSE stack
  BY <1>1 DEF Pushed, stack
<1>10. doc_refs' = IF dropped THEN [doc_refs EXCEPT ![Head(stack).document] = @ - 1]
                   ELSE doc_refs
  BY <1>1, <1>5 DEF DocRefsPushed, stack
<1> HIDE DEF dropped
<1>11. ASSUME NEW d \in Tabs, Owned(d) PROVE Owned(d)'
  <2> DEFINE X == TabsOf(tab, d)
             E == EntriesOf(d)
             h == Head(stack)
  <2>1. /\ Held(d) \in Nat /\ Kept(d) \in Nat /\ doc_refs[d] \in Int
    BY OwnedMeansCounted
  <2>2. tabs[k] \in X <=> e \in E
    BY <1>3, <1>4 DEF TabsOf, EntriesOf, e
  <2>3. h \in E <=> h.document = d
    BY <1>7 DEF EntriesOf
  <2> HIDE DEF X, E
  <2>4. Held(d) = Held(d)' + (IF e \in E THEN 1 ELSE 0)
    <3>1. Cardinality(Places(tabs, X)) =
            Cardinality(Places(RemoveAt(tabs, k), X)) + (IF tabs[k] \in X THEN 1 ELSE 0)
      BY <1>2, RemoveAtCounts
    <3> QED BY <1>1, <2>2, <3>1 DEF Held, X
  <2>5. Cardinality(Places(stack, E)) = Kept(d) + (IF e \in E THEN 1 ELSE 0)
    BY <1>2, <1>4, AppendCounts DEF Kept, E, stack
  <2>6. Cardinality(Places(stack, E)) =
          Cardinality(Places(Tail(stack), E)) + (IF h \in E THEN 1 ELSE 0)
    BY <1>5, <1>6, TailCounts
  <2>7. /\ Cardinality(Places(stack, E)) \in Nat
        /\ Cardinality(Places(Tail(stack), E)) \in Nat
    BY <1>5, <1>7, PlacesAreFinite
  <2>8. Held(d)' \in Nat
    <3>1. RemoveAt(tabs, k) \in Seq(1 .. Len(tab))
      BY <1>2, RemoveAtIsShift
    <3> QED BY <1>1, <3>1, PlacesAreFinite DEF Held
  <2> HIDE DEF h
  <2>9. CASE dropped
    <3>1. Kept(d)' = Cardinality(Places(Tail(stack), E))
      BY <1>9, <2>9 DEF Kept, E
    <3>2. doc_refs'[d] = doc_refs[d] - (IF h \in E THEN 1 ELSE 0)
      BY <1>2, <1>8, <1>10, <2>1, <2>3, <2>9 DEF h
    <3> QED BY <1>11, <2>1, <2>4, <2>5, <2>6, <2>7, <2>8, <3>1, <3>2 DEF Owned
  <2>10. CASE ~ dropped
    <3>1. Kept(d)' = Cardinality(Places(stack, E))
      BY <1>9, <2>10 DEF Kept, E
    <3>2. doc_refs'[d] = doc_refs[d]
      BY <1>10, <2>10
    <3> QED BY <1>11, <2>1, <2>4, <2>5, <2>7, <2>8, <3>1, <3>2 DEF Owned
  <2> QED BY <2>9, <2>10
<1>12. DocumentsExist'
  <2>1. Existing' = Existing
    BY <1>1 DEF Existing
  <2> QED BY <1>1, <1>5, <1>7, <1>9, <2>1 DEF DocumentsExist
<1> QED BY <1>11, <1>12 DEF Balanced

LEMMA ReorderBalances ==
    ASSUME Inv, DocumentsExist, NEW i \in 0 .. Len(tabs) - 1,
           NEW j \in 0 .. Len(tabs) - 1, ReorderTab(i, j)
    PROVE  Balanced /\ DocumentsExist'
<1> DEFINE t == tabs[i + 1]
           rest == RemoveAt(tabs, i + 1)
           S == 1 .. Len(tab)
<1>1. /\ tabs' = InsertAt(rest, j + 1, t) /\ tab' = tab
      /\ reopen_stack' = reopen_stack /\ doc_refs' = doc_refs
  BY DEF ReorderTab
<1>2. /\ tabs \in Seq(S) /\ Len(tabs) \in Nat /\ DOMAIN tabs = 1 .. Len(tabs)
  BY DEF Inv, TypeOK
<1>3. i + 1 \in DOMAIN tabs /\ t \in S
  BY <1>2
<1>4. rest \in Seq(S) /\ Len(rest) = Len(tabs) - 1
  BY <1>2, <1>3, RemoveAtIsShift
<1>5. j + 1 \in 1 .. Len(rest) + 1
  BY <1>2, <1>4
<1>6. ASSUME NEW d \in Tabs PROVE Held(d)' = Held(d)
  <2> DEFINE X == TabsOf(tab, d)
  <2> HIDE DEF X, S
  <2>1. Cardinality(Places(tabs, X)) =
          Cardinality(Places(rest, X)) + (IF t \in X THEN 1 ELSE 0)
    BY <1>2, <1>3, RemoveAtCounts
  <2> HIDE DEF rest, t
  <2>2. Cardinality(Places(InsertAt(rest, j + 1, t), X)) =
          Cardinality(Places(rest, X)) + (IF t \in X THEN 1 ELSE 0)
    BY <1>3, <1>4, <1>5, InsertAtCounts
  <2> QED BY <1>1, <2>1, <2>2 DEF Held, X
<1>7. \A d \in Tabs : Owned(d) => Owned(d)'
  BY <1>1, <1>6 DEF Owned, Kept
<1>8. DocumentsExist'
  BY <1>1 DEF DocumentsExist, Existing
<1> QED BY <1>7, <1>8 DEF Balanced

LEMMA ClearBalances ==
    ASSUME Inv, DocumentsExist, ClearReopenStack
    PROVE  Balanced /\ DocumentsExist'
<1>1. /\ doc_refs' = [d \in Tabs |-> doc_refs[d] -
           Cardinality({k \in DOMAIN reopen_stack : reopen_stack[k].document = d})]
      /\ reopen_stack' = <<>> /\ tab' = tab /\ tabs' = tabs
  BY DEF ClearReopenStack
<1>2. ASSUME NEW d \in Tabs, Owned(d) PROVE Owned(d)'
  <2>1. \A k \in DOMAIN reopen_stack : reopen_stack[k] \in Entry
    BY DEF Inv, TypeOK
  <2>2. Places(reopen_stack, EntriesOf(d)) =
          {k \in DOMAIN reopen_stack : reopen_stack[k].document = d}
    BY <2>1 DEF Places, EntriesOf
  <2>3. doc_refs'[d] = doc_refs[d] - Kept(d)
    BY <1>1, <2>2 DEF Kept
  <2>4. Held(d)' = Held(d)
    BY <1>1 DEF Held
  <2>5. Places(<<>>, EntriesOf(d)) = {}
    BY DEF Places
  <2>6. Kept(d)' = 0
    BY <1>1, <2>5, FS_EmptySet DEF Kept
  <2>7. Held(d) \in Nat /\ Kept(d) \in Nat /\ doc_refs[d] \in Int
    BY OwnedMeansCounted
  <2> QED BY <1>2, <2>3, <2>4, <2>6, <2>7 DEF Owned
<1>3. DocumentsExist'
  BY <1>1 DEF DocumentsExist, Existing
<1> QED BY <1>2, <1>3 DEF Balanced

LEMMA RestartBalances ==
    ASSUME Restart
    PROVE  Balanced /\ DocumentsExist'
<1>1. /\ tab' = <<>> /\ tabs' = <<>> /\ reopen_stack' = <<>>
      /\ doc_refs' = [t \in Tabs |-> 0]
  BY DEF Restart, StartWith
<1>2. ASSUME NEW d \in Tabs PROVE Owned(d)'
  <2>1. /\ Places(<<>>, TabsOf(tab', d)) = {}
        /\ Places(<<>>, EntriesOf(d)) = {}
    BY DEF Places
  <2>2. Held(d)' = 0 /\ Kept(d)' = 0
    BY <1>1, <2>1, FS_EmptySet DEF Held, Kept
  <2> QED BY <1>1, <2>2 DEF Owned
<1>3. DocumentsExist'
  BY <1>1 DEF DocumentsExist
<1> QED BY <1>2, <1>3 DEF Balanced

\* A reopened tab leaves the documents that there are.
LEMMA ReopenKeepsDocuments ==
    ASSUME Inv, DocumentsExist, ReopenLastClosedTab
    PROVE  DocumentsExist'
<1> DEFINE e == Last(reopen_stack)
<1>1. /\ tab' = Append(tab, e) /\ reopen_stack' = Front(reopen_stack)
      /\ reopen_stack # <<>>
  BY DEF ReopenLastClosedTab
<1>2. tab \in Seq(Existing) /\ reopen_stack \in Seq(Existing) /\ Len(tab) \in Nat
  BY DEF DocumentsExist
<1>3. Front(reopen_stack) \in Seq(Existing)
  BY <1>1, <1>2, FrontIsShorter
<1>4. e \in Existing
  BY <1>1, <1>2 DEF Last
<1> HIDE DEF e
<1>5. Len(tab') = Len(tab) + 1
  BY <1>1, <1>2, <1>4
<1>6. \A x \in Existing : x \in Existing'
  <2>1. Existing' = {x \in Entry : x.document <= Len(tab) + 1}
    BY <1>5 DEF Existing
  <2>2. \A x \in Entry : x.document \in Int
    BY TabsAssumption DEF Entry, Tabs
  <2>3. \A x \in Existing : x \in Entry /\ x.document <= Len(tab)
    BY DEF Existing
  <2> QED BY <1>2, <2>1, <2>2, <2>3
<1>7. tab \in Seq(Existing') /\ e \in Existing' /\ Front(reopen_stack) \in Seq(Existing')
  BY <1>2, <1>3, <1>4, <1>6
<1> QED BY <1>1, <1>7 DEF DocumentsExist

\* Every step but a reopening keeps the balance.
LEMMA StepBalances ==
    ASSUME Inv, DocumentsExist, [Next]_vars
    PROVE  DocumentsExist' /\ (Balanced \/ ReopenLastClosedTab)
<1>1. ASSUME NEW location \in Locations, OpenFile(location)
      PROVE  Balanced /\ DocumentsExist'
  BY <1>1, OpenFileBalances
<1>2. ASSUME NEW location \in Locations, FocusFile(location)
      PROVE  Balanced /\ DocumentsExist'
  <2>1. UNCHANGED <<tab, tabs, reopen_stack, doc_refs>>
    BY <1>2 DEF FocusFile, SetActive
  <2> QED BY <2>1, SameBalance
<1>3. CASE Operation
  <2>1. CASE SelectNext
    BY <2>1, SameBalance DEF SelectNext
  <2>2. CASE SelectPrev
    BY <2>2, SameBalance DEF SelectPrev
  <2>3. ASSUME NEW j \in DOMAIN pages, ClickClose(j) PROVE Balanced /\ DocumentsExist'
    BY <2>3, RemoveTabBalances DEF ClickClose
  <2>4. ASSUME NEW j \in DOMAIN pages, ClickLabel(j) PROVE Balanced /\ DocumentsExist'
    BY <2>4, SameBalance DEF ClickLabel, managerVars
  <2>5. CASE CloseActiveTab
    BY <2>5, RemoveTabBalances DEF CloseActiveTab
  <2>6. ASSUME NEW i \in 0 .. Len(tabs) - 1, NEW j \in 0 .. Len(tabs) - 1,
               ReorderTab(i, j)
        PROVE  Balanced /\ DocumentsExist'
    BY <2>6, ReorderBalances
  <2>7. CASE ReopenLastClosedTab
    BY <2>7, ReopenKeepsDocuments
  <2>8. CASE ClearReopenStack
    BY <2>8, ClearBalances
  <2> QED
    BY <1>1, <1>2, <1>3, <2>1, <2>2, <2>3, <2>4, <2>5, <2>6, <2>7, <2>8 DEF Operation
<1>4. CASE SaveState
  BY <1>4, SameBalance DEF SaveState, managerVars
<1>5. CASE Restart
  BY <1>5, RestartBalances
<1>6. CASE LoadSession
  <2> DEFINE location == Head(restoring)
  <2>1. location \in Locations
    BY <1>6 DEF LoadSession, Inv, TypeOK
  <2>2. OpenFile(location) \/ FocusFile(location)
          \/ UNCHANGED <<managerVars, windowVars, doc_refs>>
    BY <1>6 DEF LoadSession
  <2> HIDE DEF location
  <2>3. CASE UNCHANGED <<managerVars, windowVars, doc_refs>>
    BY <2>3, SameBalance DEF managerVars
  <2> QED BY <1>1, <1>2, <2>1, <2>2, <2>3
<1>7. CASE UNCHANGED vars
  BY <1>7, SameBalance DEF vars
<1> QED BY <1>3, <1>4, <1>5, <1>6, <1>7 DEF Next

-----------------------------------------------------------------------------
(* The session *)

\* The files that are open or still to be opened are those that were saved.
FilesOpen == {tab[tabs[k]].location : k \in DOMAIN tabs}
OnTheWay ==
    /\ FilesOpen \cup (ToSet(restoring) \ WithComma) = ToSet(saved) \ WithComma
    /\ OneTabPerFile
SessionOnTheWay == restoring # <<>> => OnTheWay

\* The search for a location finds a tab if there is one that has it.
LEMMA SearchFinds ==
    ASSUME Inv, NEW location
    PROVE  IsOpen(location) <=> location \in FilesOpen
<1>1. DOMAIN tabs \in SUBSET Nat
  BY DEF Inv, TypeOK
<1>2. ASSUME location \in FilesOpen PROVE IsOpen(location)
  <2> DEFINE Has == {k \in DOMAIN tabs : tab[tabs[k]].location = location}
  <2>1. Has \in SUBSET Nat /\ Has # {}
    BY <1>1, <1>2 DEF FilesOpen
  <2>2. PICK k \in Has : \A j \in Has : k <= j
    <3> HIDE DEF Has
    <3> QED BY <2>1, LeastNumber
  <2>3. k \in DOMAIN tabs /\ k \in 1 .. Len(tabs) /\ Len(tabs) \in Nat
    BY DEF Inv, TypeOK
  <2>4. \A j \in 1 .. k - 1 : j \in DOMAIN tabs /\ ~ (k <= j)
    BY <2>3
  <2>5. HasLocation(k, location)
    BY <2>2, <2>4 DEF HasLocation
  <2> QED BY <2>3, <2>5 DEF IsOpen
<1>3. ASSUME IsOpen(location) PROVE location \in FilesOpen
  BY <1>3 DEF IsOpen, HasLocation, FilesOpen
<1> QED BY <1>2, <1>3

\* A file that no tab holds is opened.
LEMMA OpenFileOpens ==
    ASSUME Inv, NEW location \in Locations, OpenFile(location)
    PROVE  /\ FilesOpen' = FilesOpen \cup {location}
           /\ OneTabPerFile => OneTabPerFile'
<1> DEFINE n == Len(tab)
           m == Len(tabs)
           e == [document |-> n + 1, location |-> location]
<1>1. /\ tab' = Append(tab, e) /\ tabs' = Append(tabs, n + 1) /\ n + 1 \in Tabs
      /\ ~ IsOpen(location)
  BY DEF OpenFile, AppendTab
<1>2. /\ n \in Nat /\ m \in Nat /\ tab \in Seq(Entry) /\ DOMAIN tab = 1 .. n
      /\ tabs \in Seq(1 .. n) /\ DOMAIN tabs = 1 .. m
      /\ \A k \in 1 .. m : tabs[k] \in 1 .. n
  BY DEF Inv, TypeOK
<1>3. e \in Entry /\ e.location = location
  BY <1>1 DEF Entry
<1> HIDE DEF e
<1>4. /\ tab'[n + 1] = e /\ \A t \in 1 .. n : tab'[t] = tab[t]
      /\ DOMAIN tabs' = 1 .. m + 1 /\ tabs'[m + 1] = n + 1
      /\ \A k \in 1 .. m : tabs'[k] = tabs[k]
  BY <1>1, <1>2, <1>3
<1>5. /\ \A k \in 1 .. m : tab'[tabs'[k]].location = tab[tabs[k]].location
      /\ tab'[tabs'[m + 1]].location = location
  BY <1>2, <1>3, <1>4
<1>6. location \notin FilesOpen
  BY <1>1, SearchFinds
<1>7. FilesOpen' = FilesOpen \cup {location}
  <2>1. \A k \in 1 .. m + 1 : k \in 1 .. m \/ k = m + 1
    BY <1>2
  <2>2. 1 .. m \subseteq 1 .. m + 1 /\ m + 1 \in 1 .. m + 1
    BY <1>2
  <2>3. ASSUME NEW x \in FilesOpen' PROVE x \in FilesOpen \cup {location}
    <3>1. PICK k \in 1 .. m + 1 : x = tab'[tabs'[k]].location
      BY <1>4 DEF FilesOpen
    <3> QED BY <1>2, <1>5, <2>1, <3>1 DEF FilesOpen
  <2>4. ASSUME NEW x \in FilesOpen PROVE x \in FilesOpen'
    <3>1. PICK k \in 1 .. m : x = tab[tabs[k]].location
      BY <1>2 DEF FilesOpen
    <3>2. k \in DOMAIN tabs' /\ x = tab'[tabs'[k]].location
      BY <1>4, <1>5, <2>2, <3>1
    <3> QED BY <3>2 DEF FilesOpen
  <2>5. location \in FilesOpen'
    <3>1. m + 1 \in DOMAIN tabs' /\ location = tab'[tabs'[m + 1]].location
      BY <1>4, <1>5, <2>2
    <3> QED BY <3>1 DEF FilesOpen
  <2> QED BY <2>3, <2>4, <2>5
<1>8. ASSUME OneTabPerFile PROVE OneTabPerFile'
  <2> SUFFICES ASSUME NEW j \in 1 .. m + 1, NEW k \in 1 .. m + 1,
                      tab'[tabs'[j]].location = tab'[tabs'[k]].location
               PROVE  j = k
    BY <1>4 DEF OneTabPerFile
  <2>1. \A i \in 1 .. m : tab[tabs[i]].location # location
    BY <1>2, <1>6 DEF FilesOpen
  <2>2. CASE j \in 1 .. m /\ k \in 1 .. m
    BY <1>2, <1>5, <1>8, <2>2 DEF OneTabPerFile
  <2>3. CASE j = m + 1 \/ k = m + 1
    BY <1>2, <1>5, <2>1, <2>3
  <2> QED BY <1>2, <2>2, <2>3
<1> QED BY <1>7, <1>8

\* A turn of the loop takes a file from those to be opened to those that are.
LEMMA LoadSessionMovesOn ==
    ASSUME Inv, LoadSession, OnTheWay
    PROVE  OnTheWay'
<1> DEFINE location == Head(restoring)
           rest == Tail(restoring)
<1>1. /\ restoring \in Seq(Locations) /\ restoring # <<>>
      /\ restoring' = rest /\ saved' = saved
  BY DEF LoadSession, Inv, TypeOK
<1>2. location \in Locations
  BY <1>1
<1>3. ToSet(restoring) = ToSet(rest) \cup {location}
  <2>1. /\ Len(restoring) \in Nat \ {0} /\ Head(restoring) = restoring[1]
        /\ DOMAIN restoring = 1 .. Len(restoring)
        /\ DOMAIN rest = 1 .. Len(restoring) - 1
        /\ \A k \in 1 .. Len(restoring) - 1 : rest[k] = restoring[k + 1]
    BY <1>1
  <2>2. ASSUME NEW k \in 1 .. Len(restoring)
        PROVE  restoring[k] \in ToSet(rest) \cup {location}
    <3>1. CASE k = 1
      BY <2>1, <3>1
    <3>2. CASE k # 1
      <4>1. k - 1 \in DOMAIN rest /\ rest[k - 1] = restoring[k]
        BY <2>1, <3>2
      <4> HIDE DEF rest
      <4> QED BY <4>1 DEF ToSet
    <3> QED BY <3>1, <3>2
  <2>3. ASSUME NEW k \in DOMAIN rest PROVE rest[k] \in ToSet(restoring)
    <3>1. k + 1 \in DOMAIN restoring /\ rest[k] = restoring[k + 1]
      BY <2>1
    <3> HIDE DEF rest
    <3> QED BY <3>1 DEF ToSet
  <2>4. location \in ToSet(restoring)
    BY <2>1 DEF ToSet
  <2>5. ToSet(restoring) \subseteq ToSet(rest) \cup {location}
    BY <2>1, <2>2 DEF ToSet
  <2>6. ToSet(rest) \subseteq ToSet(restoring)
    <3> HIDE DEF rest
    <3> QED BY <2>3 DEF ToSet
  <2> QED BY <2>4, <2>5, <2>6
<1>4. \/ location \notin WithComma /\ OpenFile(location)
      \/ location \notin WithComma /\ FocusFile(location)
      \/ /\ location \in WithComma \/ \E k \in DOMAIN tabs : HasLocation(k, location)
         /\ UNCHANGED <<managerVars, windowVars, doc_refs>>
  BY DEF LoadSession
<1>5. \A k \in DOMAIN tabs : HasLocation(k, location) => location \in FilesOpen
  BY DEF HasLocation, FilesOpen
<1> HIDE DEF location, rest
<1>6. CASE location \notin WithComma /\ OpenFile(location)
  <2>1. FilesOpen' = FilesOpen \cup {location} /\ OneTabPerFile'
    BY <1>2, <1>6, OpenFileOpens DEF OnTheWay
  <2> QED BY <1>1, <1>3, <1>6, <2>1 DEF OnTheWay
<1>7. CASE location \notin WithComma /\ FocusFile(location)
  <2>1. tab' = tab /\ tabs' = tabs /\ location \in FilesOpen
    BY <1>5, <1>7 DEF FocusFile, SetActive
  <2>2. FilesOpen' = FilesOpen /\ OneTabPerFile'
    BY <2>1 DEF FilesOpen, OneTabPerFile, OnTheWay
  <2> QED BY <1>1, <1>3, <1>7, <2>1, <2>2 DEF OnTheWay
<1>8. CASE /\ location \in WithComma \/ \E k \in DOMAIN tabs : HasLocation(k, location)
           /\ UNCHANGED <<managerVars, windowVars, doc_refs>>
  <2>1. tab' = tab /\ tabs' = tabs
    BY <1>8 DEF managerVars
  <2>2. FilesOpen' = FilesOpen /\ OneTabPerFile'
    BY <2>1 DEF FilesOpen, OneTabPerFile, OnTheWay
  <2>3. location \in WithComma \/ location \in FilesOpen
    BY <1>5, <1>8
  <2> QED BY <1>1, <1>3, <2>2, <2>3 DEF OnTheWay
<1> QED BY <1>4, <1>6, <1>7, <1>8

\* The program starts with nothing open and everything that was saved to open.
LEMMA RestartSetsOut ==
    ASSUME Restart
    PROVE  OnTheWay'
<1>1. tab' = <<>> /\ tabs' = <<>> /\ restoring' = saved /\ saved' = saved
  BY DEF Restart, StartWith
<1>2. FilesOpen' = {} /\ OneTabPerFile'
  BY <1>1 DEF FilesOpen, OneTabPerFile
<1> QED BY <1>1, <1>2 DEF OnTheWay

\* Nothing else happens while files are still to be opened.
LEMMA SessionStays ==
    ASSUME Inv, SessionOnTheWay, [Next]_vars
    PROVE  SessionOnTheWay'
<1>1. CASE LoadSession
  <2>1. restoring # <<>>
    BY <1>1 DEF LoadSession
  <2> QED BY <1>1, <2>1, LoadSessionMovesOn DEF SessionOnTheWay
<1>2. CASE Restart
  BY <1>2, RestartSetsOut DEF SessionOnTheWay
<1>3. CASE restoring = <<>> /\ Operation /\ UNCHANGED sessionVars
  BY <1>3 DEF SessionOnTheWay, sessionVars
<1>4. CASE restoring = <<>> /\ SaveState
  BY <1>4 DEF SessionOnTheWay, SaveState
<1>5. CASE UNCHANGED vars
  BY <1>5 DEF SessionOnTheWay, OnTheWay, FilesOpen, OneTabPerFile, vars
<1> QED BY <1>1, <1>2, <1>3, <1>4, <1>5 DEF Next

-----------------------------------------------------------------------------
(* The theorems *)

\* The invariant holds in every state: with the announced tab among the parts.
THEOREM InvHolds == Spec => []Inv
<1>1. Init => Inv
  BY InitFits
<1>2. Inv /\ [Next]_vars => Inv'
  BY StepFits DEF Fits
<1> QED BY <1>1, <1>2, PTL DEF Spec

\* Type correctness: in particular the index is that of a tab as long as there
\* is one, and the stack of closed tabs stays within its bound.
THEOREM TypeCorrect == Spec => []TypeOK
<1>1. Inv => TypeOK
  BY DEF Inv
<1> QED BY <1>1, InvHolds, PTL

\* The notebook and the manager have the same tabs, each once.
THEOREM PagesAreAlwaysTabs == Spec => []PagesAreTabs
<1>1. Inv => PagesAreTabs
  BY DEF Inv
<1> QED BY <1>1, InvHolds, PTL

\* The row, the notebook and the stack of closed tabs are well formed and in step.
THEOREM TabsAreAlwaysInStep == Spec => []TabsAreInStep
<1>1. Inv => TabsAreInStep
  BY DEF Inv, TabsAreInStep
<1> QED BY <1>1, InvHolds, PTL

\* The manager implements the row of tabs that observers are promised.
THEOREM ManagerIsTabStrip == Spec => ImplementsTabStrip
<1>1. Init => TS!Init
  BY InitFits
<1>2. Inv /\ [Next]_vars => [TS!Next]_TS!vars
  BY StepFits DEF Fits
<1> QED BY <1>1, <1>2, InvHolds, PTL DEF Spec, ImplementsTabStrip, TS!Spec

\* The title goes stale in one way only.
THEOREM TitleIsStaleOnlyByClosing == Spec => TitleGoesStaleOnlyByClosing
<1>1. Inv /\ [Next]_vars => [TitleStep]_vars
  BY StepFits DEF Fits
<1> QED BY <1>1, InvHolds, PTL DEF Spec, TitleGoesStaleOnlyByClosing

\* However many tabs are opened, closed, moved and dropped from the stack, the
\* reference counts of documents stay right as long as no tab is reopened.
THEOREM OwnershipIsKeptUntilReopening == Spec => OwnershipIsLostOnlyByReopening
<1>1. Init => DocumentsExist
  BY DEF Init, DocumentsExist
<1>2. Inv /\ DocumentsExist /\ [Next]_vars => DocumentsExist'
  BY StepBalances
<1>3. Inv /\ Inv' /\ DocumentsExist /\ [Next]_vars =>
        [DocumentsAreOwned /\ ~DocumentsAreOwned' => ReopenLastClosedTab]_vars
  BY StepBalances, OwnedMeansCounted, OwnedMeansCountedNext DEF Balanced
<1> QED BY <1>1, <1>2, <1>3, InvHolds, PTL DEF Spec, OwnershipIsLostOnlyByReopening

\* Whatever was saved, in whatever order and however often a file is in the
\* list: the loop ends with those files open that it can name, in one tab each.
THEOREM SessionIsAlwaysRestored == Spec => SessionIsRestored
<1>1. Init => SessionOnTheWay
  BY DEF Init, SessionOnTheWay
<1>2. Inv /\ SessionOnTheWay /\ [Next]_vars => SessionOnTheWay'
  BY SessionStays
<1>3. Inv /\ SessionOnTheWay /\ [Next]_vars =>
        [restoring # <<>> /\ restoring' = <<>> =>
           /\ {tab'[tabs'[k]].location : k \in DOMAIN tabs'} =
                {saved[k] : k \in DOMAIN saved} \ WithComma
           /\ OneTabPerFile']_vars
  <2> SUFFICES ASSUME Inv, SessionOnTheWay, Next, restoring # <<>>, restoring' = <<>>
               PROVE  /\ {tab'[tabs'[k]].location : k \in DOMAIN tabs'} =
                           {saved[k] : k \in DOMAIN saved} \ WithComma
                      /\ OneTabPerFile'
    OBVIOUS
  <2>1. LoadSession
    BY DEF Next
  <2>2. OnTheWay'
    BY <2>1, LoadSessionMovesOn DEF SessionOnTheWay
  <2>3. saved' = saved
    BY <2>1 DEF LoadSession
  <2>4. ToSet(restoring') = {} /\ ToSet(saved) = {saved[k] : k \in DOMAIN saved}
    BY DEF ToSet
  <2>5. FilesOpen' = {tab'[tabs'[k]].location : k \in DOMAIN tabs'}
    BY DEF FilesOpen
  <2> QED BY <2>2, <2>3, <2>4, <2>5 DEF OnTheWay
<1> QED BY <1>1, <1>2, <1>3, InvHolds, PTL DEF Spec, SessionIsRestored

=============================================================================
