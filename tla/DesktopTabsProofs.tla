-------------------------- MODULE DesktopTabsProofs --------------------------
(* Proofs about DesktopTabs, for any workspaces, tab ids and history depth.  *)
EXTENDS DesktopTabs, TLAPS

Groups  == [Slugs -> [tabs : SUBSET Ids, activeTabId : Ids \cup {None}]]
Copies  == [path : Paths \cup {Root}, historyIndex : Nat, historyLength : Nat \ {0}]
Routers == {r \in [entries : Seq(Paths \cup {Root}), at : Nat \ {0}] : r.at <= Len(r.entries)}
Refs    == [index : Nat, length : Nat \ {0}]

\* What makes an enabled button go somewhere: a tab's counters claim no more
\* history on either side of the router's place than there is.
CountersSafe(c, r, n) ==
  /\ c.historyIndex < r.at /\ n.index < r.at
  /\ n.index < n.length /\ n.length - n.index <= Len(r.entries) - r.at + 1

Counted == \A id \in Open(group) \ unseen : CountersSafe(tab[id], router[id], ref[id])

ViewType ==
  /\ active \in Slugs \cup {None} /\ group \in Groups
  /\ tab \in [Ids -> Copies] /\ router \in [Ids -> Routers] /\ ref \in [Ids -> Refs]
  /\ unseen \subseteq Open(group)

SessionType ==
  /\ fetched \in BOOLEAN /\ workspaces \subseteq Slugs /\ astray \in BOOLEAN
  /\ overlay \in {"none", "new-workspace", "invite"}

ViewInv == ViewType /\ GroupsSound /\ Counted

-----------------------------------------------------------------------------
(* A router stays a router, and the counters stay safe, through each event.  *)

LEMMA TypeSplit == TypeOK <=> SessionType /\ ViewType
  BY DEF TypeOK, SessionType, ViewType, Groups, Copies, Routers, Refs

LEMMA FreshRouter ==
  ASSUME NEW p \in Paths \cup {Root}
  PROVE  /\ NewTabAt(p) \in Copies /\ RouterAt(p) \in Routers /\ NewRef \in Refs
         /\ CountersSafe(NewTabAt(p), RouterAt(p), NewRef)
         /\ Location(RouterAt(p)) = p
  BY DEF NewTabAt, RouterAt, NewRef, Copies, Routers, Refs, CountersSafe, Location

LEMMA LocationType ==
  ASSUME NEW r \in Routers
  PROVE  Location(r) \in Paths \cup {Root}
  BY DEF Routers, Location

LEMMA PushedRouter ==
  ASSUME NEW r \in Routers, NEW p \in Paths \cup {Root}
  PROVE  /\ Pushed(r, p) \in Routers
         /\ Pushed(r, p).at = r.at + 1 /\ Len(Pushed(r, p).entries) = r.at + 1
  <1> DEFINE front == SubSeq(r.entries, 1, r.at)
  <1>1. front \in Seq(Paths \cup {Root}) /\ Len(front) = r.at
    BY DEF Routers
  <1>2. Append(front, p) \in Seq(Paths \cup {Root}) /\ Len(Append(front, p)) = r.at + 1
    BY <1>1 DEF Routers
  <1> QED
    BY <1>2 DEF Pushed, Routers

LEMMA ReplacedRouter ==
  ASSUME NEW r \in Routers, NEW p \in Paths \cup {Root}
  PROVE  /\ Replaced(r, p) \in Routers
         /\ Replaced(r, p).at = r.at /\ Len(Replaced(r, p).entries) = Len(r.entries)
  BY DEF Replaced, Routers

-----------------------------------------------------------------------------
(* Changes of the store.                                                     *)

LEMMA ShownType ==
  ASSUME NEW a \in Slugs \cup {None}, NEW g \in Groups, Sound(a, g)
  PROVE  Shown(a, g) # None => a \in Slugs /\ Shown(a, g) \in g[a].tabs /\ Shown(a, g) \in Open(g)
  BY TabsAssumption DEF Sound, Shown, Open, Groups, NoGroup

LEMMA StoreKeeps ==
  ASSUME ViewInv,
         NEW a \in Slugs \cup {None}, NEW g \in Groups, Sound(a, g),
         NEW t \in [Ids -> Copies], NEW r \in [Ids -> Routers],
         \A id \in Open(g) : IF id \in Open(group) THEN t[id] = tab[id] /\ r[id] = router[id]
                             ELSE CountersSafe(t[id], r[id], NewRef),
         Store(a, g, t, r)
  PROVE  ViewInv'
  <1> DEFINE t1 == [i \in Ids |-> IF i \in Open(g) THEN t[i] ELSE NewTabAt(Root)]
  <1> DEFINE v == Shown(active', group')
  <1>1. active' = a /\ group' = g /\ unseen' = unseen \cap Open(g)
    BY DEF Store
  <1>2. router' = [i \in Ids |-> IF i \in Open(g) THEN r[i] ELSE RouterAt(Root)]
    BY DEF Store
  <1>3. ref' \in [Ids -> Refs] /\ \A i \in Ids : ref'[i] = NewRef \/ (ref'[i] = ref[i] /\ i \in Open(group))
    BY FreshRouter DEF Store, ViewInv, ViewType
  <1>4. tab' = IF v = None THEN t1 ELSE [t1 EXCEPT ![v].path = Location(router'[v])]
    BY DEF Store, SyncVisible
  <1>5. router' \in [Ids -> Routers]
    BY <1>2, FreshRouter
  <1>6. t1 \in [Ids -> Copies]
    BY FreshRouter
  <1>7. v # None => v \in Ids
    BY <1>1, ShownType DEF Open, Groups
  <1>8. tab' \in [Ids -> Copies] /\ \A i \in Ids : tab'[i].historyIndex = t1[i].historyIndex
    <2>1. CASE v = None
      BY <1>4, <1>6, <2>1
    <2>2. CASE v # None
      <3> DEFINE c == [t1[v] EXCEPT !.path = Location(router'[v])]
      <3>1. v \in Ids /\ t1[v] \in Copies /\ Location(router'[v]) \in Paths \cup {Root}
        BY <1>5, <1>6, <1>7, <2>2, LocationType
      <3>2. tab' = [t1 EXCEPT ![v] = c]
        BY <1>4, <2>2
      <3> HIDE DEF t1
      <3>3. c \in Copies /\ c.historyIndex = t1[v].historyIndex
        BY <3>1 DEF Copies
      <3> QED
        BY <1>6, <3>1, <3>2, <3>3
    <2> QED
      BY <2>1, <2>2
  <1>9. ViewType' /\ GroupsSound'
    BY <1>1, <1>3, <1>5, <1>8 DEF ViewType, GroupsSound, ViewInv, Open
  <1>10. Open(g) \subseteq Ids
    BY DEF Open, Groups
  <1>11. ASSUME NEW id \in Open(g), id \notin unseen
         PROVE  CountersSafe(tab'[id], router'[id], ref'[id])
    <2>1. id \in Ids /\ tab'[id].historyIndex = t[id].historyIndex /\ router'[id] = r[id]
      BY <1>2, <1>8, <1>10
    <2>2. CASE id \in Open(group)
      <3>1. CountersSafe(tab[id], router[id], ref[id])
        BY <1>11, <2>2 DEF ViewInv, Counted
      <3>2. t[id] = tab[id] /\ r[id] = router[id] /\ router[id] \in Routers
        BY <2>1, <2>2 DEF ViewInv, ViewType
      <3>3. CASE ref'[id] = NewRef
        BY <2>1, <3>1, <3>2, <3>3 DEF CountersSafe, NewRef, Routers
      <3>4. CASE ref'[id] = ref[id]
        BY <2>1, <3>1, <3>2, <3>4 DEF CountersSafe
      <3> QED
        BY <1>3, <2>1, <3>3, <3>4
    <2>3. CASE id \notin Open(group)
      BY <1>3, <2>1, <2>3 DEF CountersSafe
    <2> QED
      BY <2>2, <2>3
  <1>12. Counted'
    BY <1>1, <1>11 DEF Counted, Open
  <1> QED
    BY <1>9, <1>12 DEF ViewInv

\* g is what is left of the groups after some have been dropped.
Remains(g) == g \in Groups /\ \A s \in Slugs : g[s] = group[s] \/ g[s] = NoGroup

LEMMA RemainsSound ==
  ASSUME ViewInv, NEW g, Remains(g)
  PROVE  Sound(None, g) /\ Open(g) \subseteq Open(group)
  BY TabsAssumption DEF ViewInv, GroupsSound, Sound, Remains, NoGroup, Open, Groups

LEMMA StoreRemains ==
  ASSUME ViewInv, NEW g, Remains(g),
         NEW a \in Slugs \cup {None}, a # None => g[a].tabs # {},
         Store(a, g, tab, router)
  PROVE  ViewInv'
  <1>1. Sound(a, g) /\ g \in Groups
    BY RemainsSound DEF Sound, Remains
  <1> QED
    BY <1>1, RemainsSound, StoreKeeps DEF ViewInv, ViewType

LEMMA MakeTabKeeps ==
  ASSUME ViewInv, NEW g, Remains(g), NEW s \in Slugs, NEW p \in Paths \cup {Root}, MakeTab(g, s, p)
  PROVE  ViewInv'
  <1>1. PICK id \in Ids \ Open(group) :
          Store(s, [g EXCEPT ![s] = [tabs |-> @.tabs \cup {id}, activeTabId |-> id]],
                [tab EXCEPT ![id] = NewTabAt(p)], [router EXCEPT ![id] = RouterAt(p)])
    BY DEF MakeTab
  <1> DEFINE h == [g EXCEPT ![s] = [tabs |-> @.tabs \cup {id}, activeTabId |-> id]]
  <1>2. g \in Groups /\ Sound(None, g) /\ Open(g) \subseteq Open(group)
    BY RemainsSound DEF Remains
  <1>3. h \in Groups /\ \A u \in Slugs : h[u] = IF u = s THEN [tabs |-> g[s].tabs \cup {id}, activeTabId |-> id] ELSE g[u]
    BY <1>1, <1>2 DEF Groups
  <1>4. \A u \in Slugs : id \notin g[u].tabs
    BY <1>1, <1>2 DEF Open
  <1>5. Sound(s, h)
    BY <1>2, <1>3, <1>4, TabsAssumption DEF Sound
  <1>6. Open(h) \subseteq Open(group) \cup {id}
    BY <1>2, <1>3 DEF Open
  <1>7. [tab EXCEPT ![id] = NewTabAt(p)] \in [Ids -> Copies] /\ [router EXCEPT ![id] = RouterAt(p)] \in [Ids -> Routers]
    BY FreshRouter DEF ViewInv, ViewType
  <1>8. \A i \in Open(h) : IF i \in Open(group)
            THEN [tab EXCEPT ![id] = NewTabAt(p)][i] = tab[i] /\ [router EXCEPT ![id] = RouterAt(p)][i] = router[i]
            ELSE CountersSafe([tab EXCEPT ![id] = NewTabAt(p)][i], [router EXCEPT ![id] = RouterAt(p)][i], NewRef)
    <2> SUFFICES ASSUME NEW i \in Open(h)
                 PROVE  IF i \in Open(group)
            THEN [tab EXCEPT ![id] = NewTabAt(p)][i] = tab[i] /\ [router EXCEPT ![id] = RouterAt(p)][i] = router[i]
            ELSE CountersSafe([tab EXCEPT ![id] = NewTabAt(p)][i], [router EXCEPT ![id] = RouterAt(p)][i], NewRef)
      OBVIOUS
    <2>1. i \in Ids
      BY <1>3 DEF Open, Groups
    <2>2. CASE i \in Open(group)
      BY <1>1, <2>1, <2>2 DEF ViewInv, ViewType
    <2>3. CASE i \notin Open(group)
      BY <1>1, <1>6, <2>1, <2>3, FreshRouter DEF ViewInv, ViewType
    <2> QED
      BY <2>2, <2>3
  <1> QED
    BY <1>1, <1>3, <1>5, <1>7, <1>8, StoreKeeps

LEMMA AllRemains == ASSUME ViewInv PROVE Remains(group)
  BY DEF ViewInv, ViewType, Remains

LEMMA ShowTabKeeps ==
  ASSUME ViewInv, NEW s \in Slugs, NEW id \in group[s].tabs,
         Store(s, [group EXCEPT ![s] = Showing(id, @)], tab, router)
  PROVE  ViewInv'
  <1> DEFINE g == [group EXCEPT ![s] = Showing(id, @)]
  <1>1. /\ g \in Groups
        /\ \A u \in Slugs : g[u].tabs = group[u].tabs /\ (u # s => g[u] = group[u])
        /\ g[s].activeTabId = id
    BY DEF ViewInv, ViewType, Groups, Showing
  <1>2. Open(g) = Open(group)
    BY <1>1 DEF Open
  <1>3. Sound(s, g)
    BY <1>1 DEF ViewInv, GroupsSound, Sound
  <1> QED
    BY <1>1, <1>2, <1>3, StoreKeeps DEF ViewInv, ViewType

LEMMA OpenAtKeeps ==
  ASSUME ViewInv, NEW s \in Slugs, NEW p \in Paths \cup {Root}, OpenAt(s, p)
  PROVE  ViewInv'
  BY AllRemains, MakeTabKeeps, ShowTabKeeps DEF OpenAt, AtPath

LEMMA ResumeKeeps ==
  ASSUME ViewInv, NEW g, Remains(g), NEW s \in Slugs, Resume(g, s)
  PROVE  ViewInv'
  <1>1. defaultPathFor(s) \in Paths
    BY TabsAssumption DEF defaultPathFor, Paths
  <1> QED
    BY <1>1, StoreRemains, MakeTabKeeps DEF Resume

-----------------------------------------------------------------------------
(* Moves of a router.                                                        *)

LEMMA VisibleOpen ==
  ASSUME ViewInv, Visible # None
  PROVE  Visible \in Ids /\ Visible \in Open(group)
  BY ShownType DEF Visible, ViewInv, ViewType, GroupsSound, Open, Groups

LEMMA FollowKeeps ==
  ASSUME ViewInv, Visible # None, NEW r \in Routers, NEW n \in Refs,
         Visible \notin unseen => n.index < r.at /\ n.index < n.length /\ n.length - n.index <= Len(r.entries) - r.at + 1,
         Follow(r, n)
  PROVE  ViewInv'
  <1> DEFINE c == [path |-> Location(r), historyIndex |-> n.index, historyLength |-> n.length]
  <1>1. c \in Copies
    BY LocationType DEF Copies, Refs
  <1>2. /\ active' = active /\ group' = group /\ unseen' = unseen
        /\ tab' = [tab EXCEPT ![Visible] = c] /\ router' = [router EXCEPT ![Visible] = r]
        /\ ref' = [ref EXCEPT ![Visible] = n]
    BY DEF Follow
  <1>3. ViewType' /\ GroupsSound'
    BY <1>1, <1>2 DEF ViewInv, ViewType, GroupsSound, Open
  <1>4. ASSUME NEW id \in Open(group) \ unseen
        PROVE  CountersSafe(tab'[id], router'[id], ref'[id])
    <2>1. id \in Ids /\ CountersSafe(tab[id], router[id], ref[id])
      BY DEF ViewInv, ViewType, Counted, Open, Groups
    <2>2. CASE id = Visible
      <3>1. tab'[id] = c /\ router'[id] = r /\ ref'[id] = n
        BY <1>2, <2>1, <2>2 DEF ViewInv, ViewType
      <3> QED
        BY <2>2, <3>1 DEF CountersSafe
    <2>3. CASE id # Visible
      BY <1>2, <2>1, <2>3 DEF ViewInv, ViewType
    <2> QED
      BY <2>2, <2>3
  <1>5. Counted'
    BY <1>2, <1>4 DEF Counted, Open
  <1> QED
    BY <1>3, <1>5 DEF ViewInv

LEMMA VisibleSafe ==
  ASSUME ViewInv, Visible # None
  PROVE  /\ router[Visible] \in Routers /\ ref[Visible] \in Refs
         /\ Visible \notin unseen => CountersSafe(tab[Visible], router[Visible], ref[Visible])
  BY VisibleOpen DEF ViewInv, ViewType, Counted

LEMMA PushKeeps ==
  ASSUME ViewInv, NEW p \in Paths \cup {Root}, Push(p)
  PROVE  ViewInv'
  <1> DEFINE r == Pushed(router[Visible], p)
  <1> DEFINE n == [index |-> ref[Visible].index + 1, length |-> ref[Visible].index + 2]
  <1>1. Visible # None /\ Follow(r, n)
    BY DEF Push
  <1>2. r \in Routers /\ r.at = router[Visible].at + 1 /\ Len(r.entries) = router[Visible].at + 1
    BY <1>1, VisibleSafe, PushedRouter
  <1>3. n \in Refs
    BY <1>1, VisibleSafe DEF Refs
  <1>4. Visible \notin unseen => n.index < r.at /\ n.index < n.length /\ n.length - n.index <= Len(r.entries) - r.at + 1
    <2> SUFFICES ASSUME Visible \notin unseen
                 PROVE  n.index < r.at /\ n.index < n.length /\ n.length - n.index <= Len(r.entries) - r.at + 1
      OBVIOUS
    <2>1. /\ ref[Visible].index \in Nat /\ router[Visible].at \in Nat
          /\ ref[Visible].index < router[Visible].at
      BY <1>1, VisibleSafe DEF CountersSafe, Routers, Refs
    <2>2. n.index = ref[Visible].index + 1 /\ n.length = ref[Visible].index + 2
      OBVIOUS
    <2> HIDE DEF r, n
    <2>3. n.index < r.at
      BY <1>2, <2>1, <2>2
    <2>4. n.index < n.length /\ n.length - n.index = 1
      BY <2>1, <2>2
    <2>5. Len(r.entries) - r.at + 1 = 1
      BY <1>2, <2>1
    <2> QED
      BY <2>3, <2>4, <2>5
  <1> QED
    BY <1>1, <1>2, <1>3, <1>4, FollowKeeps

LEMMA ReplaceKeeps ==
  ASSUME ViewInv, NEW p \in Paths \cup {Root}, Replace(p)
  PROVE  ViewInv'
  <1> DEFINE r == Replaced(router[Visible], p)
  <1>1. Visible # None /\ Follow(r, ref[Visible])
    BY DEF Replace
  <1>2. r \in Routers /\ r.at = router[Visible].at /\ Len(r.entries) = Len(router[Visible].entries)
    BY <1>1, VisibleSafe, ReplacedRouter
  <1>3. Visible \notin unseen =>
          /\ ref[Visible].index < r.at /\ ref[Visible].index < ref[Visible].length
          /\ ref[Visible].length - ref[Visible].index <= Len(r.entries) - r.at + 1
    BY <1>1, <1>2, VisibleSafe DEF CountersSafe
  <1> QED
    BY <1>1, <1>2, <1>3, VisibleSafe, FollowKeeps

\* Counters and router that move together, one entry back or forward, keep
\* their distance.
LEMMA Together ==
  ASSUME NEW i \in Nat, NEW k \in Nat, NEW at \in Nat, NEW e \in Nat,
         i < at, k - i <= e - at + 1
  PROVE  /\ i - 1 < at - 1 /\ k - (i - 1) <= e - (at - 1) + 1
         /\ i + 1 < at + 1 /\ k - (i + 1) <= e - (at + 1) + 1
OBVIOUS

LEMMA BackKeeps ==
  ASSUME ViewInv, Back
  PROVE  ViewInv'
  <1> DEFINE q == router[Visible]
  <1> DEFINE m == ref[Visible]
  <1> DEFINE r == WentBack(q)
  <1> DEFINE n == [index |-> IF m.index = 0 THEN 0 ELSE m.index - 1, length |-> m.length]
  <1>1. Visible # None /\ Follow(r, n)
    BY DEF Back, GoBack
  <1>2. q \in Routers /\ m \in Refs /\ (Visible \notin unseen => CountersSafe(tab[Visible], q, m))
    BY <1>1, VisibleSafe
  <1>3. r \in Routers /\ r.at = (IF q.at = 1 THEN 1 ELSE q.at - 1) /\ r.entries = q.entries
    BY <1>2 DEF Routers, WentBack, WentForward
  <1>4. n \in Refs /\ n.index = (IF m.index = 0 THEN 0 ELSE m.index - 1) /\ n.length = m.length
    BY <1>2 DEF Refs
  <1>5. Visible \notin unseen => n.index < r.at /\ n.index < n.length /\ n.length - n.index <= Len(r.entries) - r.at + 1
    <2> SUFFICES ASSUME Visible \notin unseen
                 PROVE  n.index < r.at /\ n.index < n.length /\ n.length - n.index <= Len(r.entries) - r.at + 1
      OBVIOUS
    <2>1. /\ m.index < q.at /\ m.index < m.length /\ m.length - m.index <= Len(q.entries) - q.at + 1
          /\ m.index \in Nat /\ m.length \in Nat /\ q.at \in Nat \ {0} /\ Len(q.entries) \in Nat /\ q.at <= Len(q.entries)
      BY <1>2 DEF CountersSafe, Routers, Refs
    <2>2. n.length = m.length /\ r.entries = q.entries
      BY <1>3, <1>4
    <2>3. n.index = (IF m.index = 0 THEN 0 ELSE m.index - 1) /\ r.at = (IF q.at = 1 THEN 1 ELSE q.at - 1)
      BY <1>3, <1>4
    <2> HIDE DEF q, m, r, n
    <2>4. CASE m.index = 0
      <3>1. n.index = 0 /\ r.at \in Nat \ {0} /\ r.at <= q.at
        BY <2>1, <2>3, <2>4
      <3>2. n.index < r.at /\ n.index < n.length
        BY <2>1, <2>2, <2>4, <3>1
      <3>3. n.length - n.index <= Len(q.entries) - r.at + 1
        <4>1. n.length - n.index = m.length - m.index
          BY <2>2, <2>4, <3>1
        <4>2. Len(q.entries) - q.at + 1 <= Len(q.entries) - r.at + 1
          BY <2>1, <3>1
        <4> QED
          BY <2>1, <3>1, <4>1, <4>2
      <3> QED
        BY <2>2, <3>2, <3>3
    <2>5. CASE m.index # 0
      <3>1. n.index = m.index - 1 /\ r.at = q.at - 1
        BY <2>1, <2>3, <2>5
      <3>2. n.index \in Nat /\ r.at \in Nat /\ n.index < m.length
        BY <2>1, <2>5, <3>1
      <3>3. /\ m.index - 1 < q.at - 1
            /\ m.length - (m.index - 1) <= Len(q.entries) - (q.at - 1) + 1
        BY <2>1, Together
      <3>4. n.index < r.at /\ m.length - n.index <= Len(q.entries) - r.at + 1
        BY <3>1, <3>3
      <3> QED
        BY <2>2, <3>2, <3>4
    <2> QED
      BY <2>4, <2>5
  <1> QED
    BY <1>1, <1>3, <1>4, <1>5, FollowKeeps

LEMMA ForwardKeeps ==
  ASSUME ViewInv, Forward
  PROVE  ViewInv'
  <1> DEFINE q == router[Visible]
  <1> DEFINE m == ref[Visible]
  <1> DEFINE r == WentForward(q)
  <1> DEFINE n == [index |-> IF m.index + 1 < m.length THEN m.index + 1 ELSE m.index, length |-> m.length]
  <1>1. Visible # None /\ Follow(r, n)
    BY DEF Forward
  <1>2. q \in Routers /\ m \in Refs /\ (Visible \notin unseen => CountersSafe(tab[Visible], q, m))
    BY <1>1, VisibleSafe
  <1>3. r \in Routers /\ r.at = (IF q.at = Len(q.entries) THEN q.at ELSE q.at + 1) /\ r.entries = q.entries
    BY <1>2 DEF Routers, WentBack, WentForward
  <1>4. n \in Refs /\ n.index = (IF m.index + 1 < m.length THEN m.index + 1 ELSE m.index) /\ n.length = m.length
    BY <1>2 DEF Refs
  <1>5. Visible \notin unseen => n.index < r.at /\ n.index < n.length /\ n.length - n.index <= Len(r.entries) - r.at + 1
    <2> SUFFICES ASSUME Visible \notin unseen
                 PROVE  n.index < r.at /\ n.index < n.length /\ n.length - n.index <= Len(r.entries) - r.at + 1
      OBVIOUS
    <2>1. /\ m.index < q.at /\ m.index < m.length /\ m.length - m.index <= Len(q.entries) - q.at + 1
          /\ m.index \in Nat /\ m.length \in Nat /\ q.at \in Nat \ {0} /\ Len(q.entries) \in Nat /\ q.at <= Len(q.entries)
      BY <1>2 DEF CountersSafe, Routers, Refs
    <2>2. n.length = m.length /\ r.entries = q.entries
      BY <1>3, <1>4
    <2>3. /\ n.index = (IF m.index + 1 < m.length THEN m.index + 1 ELSE m.index)
          /\ r.at = (IF q.at = Len(q.entries) THEN q.at ELSE q.at + 1)
      BY <1>3, <1>4
    <2> HIDE DEF q, m, r, n
    <2>4. CASE q.at = Len(q.entries)
      <3>1. m.index + 1 = m.length /\ n.index = m.index /\ r.at = q.at
        BY <2>1, <2>3, <2>4
      <3> QED
        BY <2>1, <2>2, <3>1
    <2>5. CASE q.at # Len(q.entries)
      <3>1. r.at = q.at + 1
        BY <2>3, <2>5
      <3>2. CASE m.index + 1 < m.length
        <4>1. n.index = m.index + 1
          BY <2>3, <3>2
        <4>2. n.index \in Nat /\ r.at \in Nat /\ n.index < m.length
          BY <2>1, <3>1, <3>2, <4>1
        <4>3. /\ m.index + 1 < q.at + 1
              /\ m.length - (m.index + 1) <= Len(q.entries) - (q.at + 1) + 1
          BY <2>1, Together
        <4>4. n.index < r.at /\ m.length - n.index <= Len(q.entries) - r.at + 1
          BY <3>1, <4>1, <4>3
        <4> QED
          BY <2>2, <4>2, <4>4
      <3>3. CASE ~ (m.index + 1 < m.length)
        <4>1. n.index = m.index /\ m.length - m.index = 1 /\ Len(q.entries) - q.at >= 1
          BY <2>1, <2>3, <2>5, <3>3
        <4> QED
          BY <2>1, <2>2, <3>1, <4>1
      <3> QED
        BY <3>2, <3>3
    <2> QED
      BY <2>4, <2>5
  <1> QED
    BY <1>1, <1>3, <1>4, <1>5, FollowKeeps

-----------------------------------------------------------------------------
(* Every action keeps the invariant.                                         *)

SessionStep == SessionType' /\ ViewInv'

LEMMA RootPath == Root \in Paths \cup {Root} /\ \A s \in Slugs : defaultPathFor(s) \in Paths
  BY TabsAssumption DEF Paths, defaultPathFor

LEMMA StutterKeeps == ASSUME ViewInv, UNCHANGED view PROVE ViewInv'
  BY DEF view, ViewInv, ViewType, GroupsSound, Counted, Open

LEMMA NavigateStep ==
  ASSUME SessionType, ViewInv, NEW p \in Paths, Navigate(p) \/ OpenInNewTab(p) \/ InternalLink(p)
  PROVE  SessionStep
  <1>1. SessionType'
    BY DEF SessionType, Navigate, OpenInNewTab, InternalLink, Went, session
  <1>2. p.slug \in Slugs
    BY DEF Paths
  <1>3. CASE Navigate(p)
    BY <1>1, <1>2, <1>3, OpenAtKeeps, PushKeeps, ReplaceKeeps DEF Navigate, SwitchWorkspace, SessionStep
  <1>4. CASE OpenInNewTab(p)
    <2>1. p.slug = active => active \in Slugs
      BY <1>2
    <2> QED
      BY <1>1, <1>2, <1>4, <2>1, OpenAtKeeps DEF OpenInNewTab, SwitchWorkspace, SessionStep
  <1>5. CASE InternalLink(p)
    <2>1. active \in Slugs /\ OpenAt(active, p)
      BY <1>5 DEF InternalLink, ViewInv, ViewType
    <2> QED
      BY <1>1, <2>1, OpenAtKeeps DEF SessionStep
  <1> QED
    BY <1>3, <1>4, <1>5

LEMMA LatePushStep ==
  ASSUME SessionType, ViewInv, NEW p \in Paths, LatePush(p)
  PROVE  SessionStep
  <1>1. SessionType'
    BY DEF SessionType, LatePush, Went
  <1>2. CASE UNCHANGED view
    BY <1>1, <1>2, StutterKeeps DEF SessionStep
  <1>3. ASSUME NEW id \in Ids, MoveHidden(id, p)
        PROVE  SessionStep
    <2>1. /\ id \in Open(group) /\ unseen' = unseen \cup {id}
          /\ active' = active /\ group' = group /\ tab' = tab /\ ref' = ref
      BY <1>3 DEF MoveHidden
    <2>2. PICK r \in Routers : router' = [router EXCEPT ![id] = r]
      <3>1. router[id] \in Routers
        BY DEF ViewInv, ViewType
      <3> QED
        BY <1>3, <3>1, PushedRouter, ReplacedRouter DEF MoveHidden
    <2>3. router' \in [Ids -> Routers] /\ \A i \in Ids \ {id} : router'[i] = router[i]
      BY <2>2 DEF ViewInv, ViewType
    <2>4. ViewType' /\ GroupsSound'
      BY <2>1, <2>3 DEF ViewInv, ViewType, GroupsSound, Open
    <2>5. Counted'
      BY <2>1, <2>3 DEF ViewInv, ViewType, Counted, Open, Groups
    <2> QED
      BY <1>1, <2>4, <2>5 DEF ViewInv, SessionStep
  <1> QED
    BY <1>2, <1>3 DEF LatePush

LEMMA TabBarStep ==
  ASSUME SessionType, ViewInv,
         \/ Back \/ Forward \/ NewTab
         \/ \E id \in Ids : SetActiveTab(id) \/ CloseTab(id)
  PROVE  SessionStep
  <1>1. SessionType'
    BY DEF SessionType, Back, GoBack, Forward, NewTab, SetActiveTab, CloseTab, session
  <1>2. CASE Back \/ Forward
    BY <1>1, <1>2, BackKeeps, ForwardKeeps DEF SessionStep
  <1>3. CASE NewTab
    <2>1. active \in Slugs
      BY <1>3 DEF NewTab, ViewInv, ViewType
    <2> QED
      BY <1>1, <1>3, <2>1, RootPath, AllRemains, MakeTabKeeps DEF NewTab, SessionStep
  <1>4. ASSUME NEW id \in Ids, SetActiveTab(id)
        PROVE  SessionStep
    <2>1. active \in Slugs /\ id \in group[active].tabs
      BY <1>4 DEF SetActiveTab, ViewInv, ViewType
    <2> QED
      BY <1>1, <1>4, <2>1, ShowTabKeeps DEF SetActiveTab, SessionStep
  <1>5. ASSUME NEW id \in Ids, CloseTab(id)
        PROVE  SessionStep
    <2>1. active \in Slugs /\ id \in group[active].tabs
      BY <1>5 DEF CloseTab, ViewInv, ViewType
    <2>2. CASE group[active].tabs = {id}
      <3>1. Remains([group EXCEPT ![active] = NoGroup])
        BY <2>1 DEF Remains, ViewInv, ViewType, Groups, NoGroup
      <3> QED
        BY <1>1, <1>5, <2>1, <2>2, <3>1, RootPath, MakeTabKeeps DEF CloseTab, SessionStep
    <2>3. CASE group[active].tabs # {id}
      <3>1. PICK next \in group[active].tabs \ {id} :
              Store(active, [group EXCEPT ![active] = [tabs |-> @.tabs \ {id}, activeTabId |-> next]], tab, router)
        BY <1>5, <2>3 DEF CloseTab
      <3> DEFINE g == [group EXCEPT ![active] = [tabs |-> @.tabs \ {id}, activeTabId |-> next]]
      <3>2. /\ g \in Groups
            /\ \A s \in Slugs : g[s] = IF s = active THEN [tabs |-> group[active].tabs \ {id}, activeTabId |-> next] ELSE group[s]
        BY <2>1, <3>1 DEF ViewInv, ViewType, Groups
      <3>3. Sound(active, g)
        BY <2>1, <3>1, <3>2 DEF ViewInv, GroupsSound, Sound
      <3>4. Open(g) \subseteq Open(group)
        BY <3>2 DEF Open
      <3> QED
        BY <1>1, <2>1, <3>1, <3>2, <3>3, <3>4, StoreKeeps DEF ViewInv, ViewType, SessionStep
    <2> QED
      BY <2>2, <2>3
  <1> QED
    BY <1>2, <1>3, <1>4, <1>5

LEMMA OverlayStep ==
  ASSUME SessionType, ViewInv, OpenInvite \/ DeclineInvite \/ CloseOverlay
  PROVE  SessionStep
  <1>1. SessionType'
    BY DEF SessionType, OpenInvite, DeclineInvite, NewWorkspaceOverlay, CloseOverlay, session
  <1>2. ViewInv'
    BY RootPath, StutterKeeps, ReplaceKeeps DEF OpenInvite, DeclineInvite, NewWorkspaceOverlay, CloseOverlay
  <1> QED
    BY <1>1, <1>2 DEF SessionStep

LEMMA ValidRemains ==
  ASSUME ViewInv, NEW W \in SUBSET Slugs
  PROVE  Remains(Valid(W)) /\ \A s \in W : Valid(W)[s] = group[s]
  BY DEF Remains, Valid, ViewInv, ViewType, Groups, NoGroup

LEMMA ValidActiveHas ==
  ASSUME ViewInv, NEW W \in SUBSET Slugs, NEW a \in ValidActive(W)
  PROVE  a \in Slugs \cup {None} /\ (a # None => a \in W /\ Valid(W)[a].tabs # {})
  <1>1. CASE active \in W
    BY <1>1, ValidRemains, TabsAssumption DEF ValidActive, ViewInv, GroupsSound, Sound
  <1>2. CASE active \notin W
    BY <1>2 DEF ValidActive, Grouped, Valid, NoGroup
  <1> QED
    BY <1>1, <1>2

LEMMA WorkspaceStep ==
  ASSUME SessionType, ViewInv,
         \/ \E W \in SUBSET Slugs : ListArrives(W)
         \/ AutoHeal \/ Leave \/ Logout
  PROVE  SessionStep
  <1>1. ASSUME NEW W \in SUBSET Slugs, ListArrives(W)
        PROVE  SessionStep
    <2>1. SessionType'
      BY <1>1 DEF SessionType, ListArrives
    <2>2. PICK a \in ValidActive(W) :
            IF a = None /\ W # {} THEN \E s \in W : Resume(Valid(W), s)
            ELSE Store(a, Valid(W), tab, router)
      BY <1>1 DEF ListArrives, ShowWorkspaces
    <2> QED
      BY <2>1, <2>2, ValidRemains, ValidActiveHas, StoreRemains, ResumeKeeps DEF SessionStep
  <1>2. CASE AutoHeal
    <2>1. SessionType' /\ workspaces \in SUBSET Slugs
      BY <1>2 DEF SessionType, AutoHeal
    <2> QED
      BY <1>2, <2>1, ValidRemains, ValidActiveHas, StoreRemains DEF AutoHeal, SessionStep
  <1>3. CASE Leave
    <2>1. SessionType' /\ \A s \in Slugs : defaultPathFor(s).slug = s
      BY <1>3 DEF SessionType, Leave, NewWorkspaceOverlay, session, defaultPathFor
    <2> QED
      BY <1>3, <2>1, RootPath, StutterKeeps, ReplaceKeeps, OpenAtKeeps
      DEF Leave, NewWorkspaceOverlay, SwitchWorkspace, SessionType, SessionStep
  <1>4. CASE Logout
    <2>1. SessionType'
      BY <1>4 DEF SessionType, Logout
    <2>2. Remains([s \in Slugs |-> NoGroup])
      BY DEF Remains, Groups, NoGroup
    <2> QED
      BY <1>4, <2>1, <2>2, StoreRemains DEF Logout, SessionStep
  <1> QED
    BY <1>1, <1>2, <1>3, <1>4

LEMMA RestartStep ==
  ASSUME SessionType, ViewInv, Restart
  PROVE  SessionStep
  <1>1. SessionType'
    BY DEF SessionType, Restart
  <1>2. PICK shown \in {f \in [Slugs -> Ids \cup {None}] : \A s \in Slugs : ShownAgain(s, f[s])}, a \in Slugs \cup {None} :
          LET g == [s \in Slugs |-> [tabs |-> Restored(s), activeTabId |-> shown[s]]] IN
          /\ IF Grouped(g) = {} THEN a = None
             ELSE IF active \in Grouped(g) THEN a = active ELSE a \in Grouped(g)
          /\ active' = a /\ group' = g
          /\ tab' = [i \in Ids |-> NewTabAt(IF i \in Open(g) THEN tab[i].path ELSE Root)]
          /\ router' = [i \in Ids |-> RouterAt(tab'[i].path)]
    BY DEF Restart
  <1> DEFINE g == [s \in Slugs |-> [tabs |-> Restored(s), activeTabId |-> shown[s]]]
  <1>3. ref' = [i \in Ids |-> NewRef] /\ unseen' = {}
    BY DEF Restart
  <1>4. \A s \in Slugs : Restored(s) \subseteq group[s].tabs /\ Restored(s) \subseteq Ids
    BY DEF Restored, ViewInv, ViewType, Groups
  <1>5. g \in Groups
    BY <1>4 DEF Groups
  <1>6. Sound(None, g)
    <2>1. \A s \in Slugs : IF g[s].tabs = {} THEN g[s] = NoGroup ELSE g[s].activeTabId \in g[s].tabs
      BY <1>2 DEF ShownAgain, NoGroup
    <2>2. \A s, t \in Slugs : s # t => g[s].tabs \cap g[t].tabs = {}
      BY <1>4 DEF ViewInv, GroupsSound, Sound
    <2> QED
      BY <2>1, <2>2 DEF Sound
  <1>7. Sound(a, g)
    <2>1. a # None => a \in Grouped(g)
      BY <1>2
    <2> QED
      BY <1>6, <2>1 DEF Sound, Grouped
  <1>8. active' = a /\ group' = g
    BY <1>2
  <1>9. /\ tab' \in [Ids -> Copies] /\ router' \in [Ids -> Routers] /\ ref' \in [Ids -> Refs]
        /\ \A i \in Ids : CountersSafe(tab'[i], router'[i], ref'[i])
    <2>1. \A i \in Ids : (IF i \in Open(g) THEN tab[i].path ELSE Root) \in Paths \cup {Root}
      BY DEF ViewInv, ViewType, Copies
    <2>2. \A i \in Ids : tab'[i] \in Copies /\ tab'[i].path \in Paths \cup {Root}
                        /\ tab'[i] = NewTabAt(tab'[i].path)
      BY <1>2, <2>1, FreshRouter DEF NewTabAt
    <2>3. \A i \in Ids : router'[i] = RouterAt(tab'[i].path) /\ ref'[i] = NewRef
      BY <1>2, <1>3
    <2>4. tab' = [i \in Ids |-> tab'[i]] /\ router' = [i \in Ids |-> router'[i]] /\ ref' = [i \in Ids |-> ref'[i]]
      BY <1>2, <1>3
    <2>5. \A i \in Ids : router'[i] \in Routers /\ ref'[i] \in Refs /\ CountersSafe(tab'[i], router'[i], ref'[i])
      <3> SUFFICES ASSUME NEW i \in Ids
                   PROVE  router'[i] \in Routers /\ ref'[i] \in Refs /\ CountersSafe(tab'[i], router'[i], ref'[i])
        OBVIOUS
      <3> DEFINE p == tab'[i].path
      <3>1. p \in Paths \cup {Root} /\ tab'[i] = NewTabAt(p) /\ router'[i] = RouterAt(p) /\ ref'[i] = NewRef
        BY <2>2, <2>3
      <3> HIDE DEF p
      <3>2. RouterAt(p) \in Routers /\ NewRef \in Refs /\ CountersSafe(NewTabAt(p), RouterAt(p), NewRef)
        BY <3>1, FreshRouter
      <3> QED
        BY <3>1, <3>2
    <2> QED
      BY <2>2, <2>4, <2>5
  <1>10. Open(g) \subseteq Ids
    BY <1>5 DEF Open, Groups
  <1>11. ViewType' /\ GroupsSound'
    BY <1>3, <1>5, <1>7, <1>8, <1>9 DEF ViewType, GroupsSound
  <1>12. Counted'
    BY <1>8, <1>9, <1>10 DEF Counted, Open
  <1> QED
    BY <1>1, <1>11, <1>12 DEF ViewInv, SessionStep

-----------------------------------------------------------------------------
(* The invariant and what it says.                                           *)

LEMMA InvInit == Init => SessionType /\ ViewInv
  <1> SUFFICES ASSUME Init PROVE SessionType /\ ViewInv
    OBVIOUS
  <1>1. SessionType
    BY DEF Init, SessionType
  <1>2. group \in Groups /\ GroupsSound
    BY DEF Init, Groups, NoGroup, GroupsSound, Sound
  <1>3. Open(group) = {}
    BY DEF Init, Open, NoGroup
  <1>4. tab \in [Ids -> Copies] /\ router \in [Ids -> Routers] /\ ref \in [Ids -> Refs]
    BY FreshRouter DEF Init
  <1>5. Counted
    BY <1>3 DEF Counted
  <1> QED
    BY <1>1, <1>2, <1>3, <1>4, <1>5 DEF Init, ViewInv, ViewType

LEMMA InvNext == SessionType /\ ViewInv /\ [Next]_vars => SessionType' /\ ViewInv'
  <1> SUFFICES ASSUME SessionType, ViewInv, [Next]_vars PROVE SessionStep
    BY DEF SessionStep
  <1>1. CASE Next
    <2>1. ASSUME NEW p \in Paths, Navigate(p) \/ OpenInNewTab(p) \/ InternalLink(p) PROVE SessionStep
      BY <2>1, NavigateStep
    <2>2. ASSUME NEW p \in Paths, LatePush(p) PROVE SessionStep
      BY <2>2, LatePushStep
    <2>3. CASE Back \/ Forward \/ NewTab \/ \E id \in Ids : SetActiveTab(id) \/ CloseTab(id)
      BY <2>3, TabBarStep
    <2>4. CASE OpenInvite \/ DeclineInvite \/ CloseOverlay
      BY <2>4, OverlayStep
    <2>5. CASE (\E W \in SUBSET Slugs : ListArrives(W)) \/ AutoHeal \/ Leave \/ Logout
      BY <2>5, WorkspaceStep
    <2>6. CASE Restart
      BY <2>6, RestartStep
    <2> QED
      BY <1>1, <2>1, <2>2, <2>3, <2>4, <2>5, <2>6 DEF Next
  <1>2. CASE UNCHANGED vars
    BY <1>2, StutterKeeps DEF vars, session, view, SessionType, SessionStep
  <1> QED
    BY <1>1, <1>2

\* The inductive invariant: types, sound groups and safe counters.
THEOREM Invariance == Spec => [](SessionType /\ ViewInv)
  BY InvInit, InvNext, PTL DEF Spec

\* Types, for any workspaces, pages, ids and history depth.
THEOREM TypeCorrect == Spec => []TypeOK
  <1>1. SessionType /\ ViewInv => TypeOK
    BY TypeSplit DEF ViewInv
  <1> QED
    BY <1>1, Invariance, PTL

\* Every group has its active tab, the workspace shown has a group, and no tab
\* is in two groups, whatever the order of navigation, closing, validation,
\* restarts and late pushes.
THEOREM GroupsStaySound == Spec => []GroupsSound
  <1>1. SessionType /\ ViewInv => GroupsSound
    BY DEF ViewInv
  <1> QED
    BY <1>1, Invariance, PTL

\* A back button that is enabled goes back, at any depth of history.
THEOREM BackStaysHonest == Spec => []BackIsHonest
  <1>1. SessionType /\ ViewInv => BackIsHonest
    BY DEF ViewInv, Counted, CountersSafe, BackIsHonest
  <1> QED
    BY <1>1, Invariance, PTL

-----------------------------------------------------------------------------
(* The window always shows something.  NeverStranded is inductive together   *)
(* with two facts: there is no list of workspaces before one is fetched, and *)
(* a user with workspaces has a group for one of them, wherever a push has   *)
(* led, which is what the auto-heal falls back on.                           *)

Stranding ==
  /\ NeverStranded
  /\ ~ fetched => workspaces = {}
  /\ workspaces # {} => \E s \in workspaces : group[s].tabs # {}

GroupsStay == \A s \in Slugs : group[s].tabs # {} => group'[s].tabs # {}

LEMMA ActiveAfter ==
  /\ \A a, g, t, r : Store(a, g, t, r) => active' = a /\ group' = g
  /\ \A g, s, p : MakeTab(g, s, p) => active' = s
  /\ \A s, p : OpenAt(s, p) => active' = s
  /\ \A g, s : Resume(g, s) => active' = s
  /\ \A r, n : Follow(r, n) => active' = active /\ group' = group
  /\ \A p : Push(p) \/ Replace(p) => active' = active /\ group' = group
  <1>1. \A a, g, t, r : Store(a, g, t, r) => active' = a /\ group' = g
    BY DEF Store
  <1>2. \A g, s, p : MakeTab(g, s, p) => active' = s
    BY <1>1 DEF MakeTab
  <1>3. \A s, p : OpenAt(s, p) => active' = s
    BY <1>1, <1>2 DEF OpenAt
  <1>4. \A g, s : Resume(g, s) => active' = s
    BY <1>1, <1>2 DEF Resume
  <1>5. \A r, n : Follow(r, n) => active' = active /\ group' = group
    BY DEF Follow
  <1>6. \A p : Push(p) \/ Replace(p) => active' = active /\ group' = group
    BY <1>5 DEF Push, Replace
  <1> QED
    BY <1>1, <1>2, <1>3, <1>4, <1>5, <1>6

LEMMA MakeTabStay ==
  ASSUME ViewInv, NEW s \in Slugs, NEW p, NEW g, MakeTab(g, s, p), g \in Groups,
         \A u \in Slugs : u # s => g[u] = group[u]
  PROVE  GroupsStay
  <1>1. PICK id \in Ids : group' = [g EXCEPT ![s] = [tabs |-> @.tabs \cup {id}, activeTabId |-> id]]
    BY ActiveAfter DEF MakeTab
  <1>2. \A u \in Slugs : group'[u] = IF u = s THEN [tabs |-> g[s].tabs \cup {id}, activeTabId |-> id] ELSE g[u]
    BY <1>1 DEF Groups
  <1> QED
    BY <1>2 DEF GroupsStay

LEMMA OpenAtStay ==
  ASSUME ViewInv, NEW s \in Slugs, NEW p, OpenAt(s, p)
  PROVE  GroupsStay
  <1>1. group \in Groups
    BY DEF ViewInv, ViewType
  <1>2. CASE MakeTab(group, s, p)
    BY <1>1, <1>2, MakeTabStay
  <1>3. ASSUME NEW id, Store(s, [group EXCEPT ![s] = Showing(id, @)], tab, router)
        PROVE  GroupsStay
    <2>1. group' = [group EXCEPT ![s] = Showing(id, @)]
      BY <1>3, ActiveAfter
    <2> QED
      BY <1>1, <2>1 DEF GroupsStay, Showing, Groups
  <1> QED
    BY <1>2, <1>3 DEF OpenAt

LEMMA SameStay == ASSUME group' = group PROVE GroupsStay
  BY DEF GroupsStay

LEMMA StrandingInit == Init => Stranding
  BY DEF Init, Stranding, NeverStranded

\* A step that leaves the session, the active workspace and the overlay alone
\* strands nobody as long as every group stays.
LEMMA QuietStep ==
  ASSUME SessionType, Stranding, UNCHANGED <<session, overlay, active>>, GroupsStay
  PROVE  Stranding'
  BY DEF session, SessionType, Stranding, NeverStranded, GroupsStay

\* A push that closes the overlay shows the workspace it names.
LEMMA PushStep ==
  ASSUME SessionType, Stranding, NEW p \in Paths, Went(p), active' = p.slug, GroupsStay
  PROVE  Stranding'
  BY DEF SessionType, Stranding, NeverStranded, Went, GroupsStay

LEMMA StrandingPush ==
  ASSUME SessionType, ViewInv, Stranding, NEW p \in Paths,
         Navigate(p) \/ OpenInNewTab(p) \/ LatePush(p)
  PROVE  Stranding'
  <1>1. p.slug \in Slugs
    BY DEF Paths
  <1>2. CASE LatePush(p)
    <2>1. active' = p.slug /\ group' = group
      BY <1>2 DEF LatePush, MoveHidden, view
    <2> QED
      BY <1>2, <2>1, SameStay, PushStep DEF LatePush
  <1>3. CASE Navigate(p) \/ OpenInNewTab(p)
    <2>1. Went(p) /\ (OpenAt(p.slug, p) \/ (p.slug = active /\ (Push(p) \/ Replace(p))))
      BY <1>3 DEF Navigate, OpenInNewTab, SwitchWorkspace
    <2>2. active' = p.slug /\ GroupsStay
      BY <1>1, <2>1, ActiveAfter, OpenAtStay, SameStay
    <2> QED
      BY <2>1, <2>2, PushStep
  <1> QED
    BY <1>2, <1>3

LEMMA StrandingBar ==
  ASSUME SessionType, ViewInv, Stranding,
         \/ Back \/ Forward \/ NewTab
         \/ \E id \in Ids : SetActiveTab(id) \/ CloseTab(id)
         \/ \E p \in Paths : InternalLink(p)
  PROVE  Stranding'
  <1>1. UNCHANGED <<session, overlay>>
    BY DEF Back, GoBack, Forward, NewTab, SetActiveTab, CloseTab, InternalLink
  <1>2. group \in Groups /\ (active # None => active \in Slugs)
    BY DEF ViewInv, ViewType
  <1>3. CASE Back \/ Forward
    BY <1>1, <1>3, ActiveAfter, SameStay, QuietStep DEF Back, GoBack, Forward
  <1>4. CASE NewTab
    BY <1>1, <1>2, <1>4, ActiveAfter, MakeTabStay, QuietStep DEF NewTab
  <1>5. ASSUME NEW p \in Paths, InternalLink(p)
        PROVE  Stranding'
    BY <1>1, <1>2, <1>5, ActiveAfter, OpenAtStay, QuietStep DEF InternalLink
  <1>6. ASSUME NEW id \in Ids, SetActiveTab(id)
        PROVE  Stranding'
    <2>1. active \in Slugs /\ active' = active /\ group' = [group EXCEPT ![active] = Showing(id, @)]
      BY <1>2, <1>6, ActiveAfter DEF SetActiveTab
    <2>2. GroupsStay
      BY <1>2, <2>1 DEF GroupsStay, Showing, Groups
    <2> QED
      BY <1>1, <2>1, <2>2, QuietStep
  <1>7. ASSUME NEW id \in Ids, CloseTab(id)
        PROVE  Stranding'
    <2>1. active \in Slugs /\ active' = active
      BY <1>2, <1>7, ActiveAfter DEF CloseTab
    <2>2. CASE group[active].tabs = {id}
      <3> DEFINE g == [group EXCEPT ![active] = NoGroup]
      <3>1. g \in Groups /\ \A u \in Slugs : u # active => g[u] = group[u]
        BY <1>2, <2>1 DEF Groups, NoGroup
      <3>2. MakeTab(g, active, defaultPathFor(active))
        BY <1>7, <2>2 DEF CloseTab
      <3>3. GroupsStay
        BY <2>1, <3>1, <3>2, MakeTabStay
      <3> QED
        BY <1>1, <2>1, <3>3, QuietStep
    <2>3. CASE group[active].tabs # {id}
      <3>1. PICK next \in group[active].tabs \ {id} :
              group' = [group EXCEPT ![active] = [tabs |-> @.tabs \ {id}, activeTabId |-> next]]
        BY <1>7, <2>3, ActiveAfter DEF CloseTab
      <3>2. GroupsStay
        BY <1>2, <3>1 DEF GroupsStay, Groups
      <3> QED
        BY <1>1, <2>1, <3>2, QuietStep
    <2> QED
      BY <2>2, <2>3
  <1> QED
    BY <1>3, <1>4, <1>5, <1>6, <1>7

LEMMA StrandingOverlay ==
  ASSUME SessionType, ViewInv, Stranding, OpenInvite \/ DeclineInvite \/ CloseOverlay \/ Leave
  PROVE  Stranding'
  <1>1. UNCHANGED session
    BY DEF OpenInvite, DeclineInvite, CloseOverlay, Leave
  <1>2. CASE OpenInvite \/ CloseOverlay
    BY <1>2 DEF OpenInvite, CloseOverlay, session, view, Stranding, NeverStranded
  <1>3. CASE NewWorkspaceOverlay
    <2>1. active' = active /\ group' = group /\ overlay' = "new-workspace"
      BY <1>3, ActiveAfter DEF NewWorkspaceOverlay, view
    <2> QED
      BY <1>1, <2>1 DEF session, Stranding, NeverStranded
  <1>4. ASSUME NEW s \in workspaces, SwitchWorkspace(defaultPathFor(s))
        PROVE  Stranding'
    <2>1. s \in Slugs /\ OpenAt(s, defaultPathFor(s))
      BY <1>4 DEF SwitchWorkspace, defaultPathFor, SessionType
    <2>2. active' = s /\ GroupsStay
      BY <2>1, ActiveAfter, OpenAtStay
    <2> QED
      BY <1>1, <1>4, <2>2 DEF session, SessionType, Stranding, NeverStranded, GroupsStay
  <1> QED
    BY <1>2, <1>3, <1>4 DEF DeclineInvite, Leave

LEMMA StrandingList ==
  ASSUME SessionType, ViewInv, ViewInv', Stranding, NEW W \in SUBSET Slugs, ListArrives(W)
  PROVE  Stranding'
  <1>1. fetched' = TRUE /\ workspaces' = W /\ (W = {} => overlay' # "none")
    BY DEF ListArrives
  <1>2. PICK a \in ValidActive(W) :
          IF a = None /\ W # {} THEN \E s \in W : Resume(Valid(W), s)
          ELSE Store(a, Valid(W), tab, router)
    BY DEF ListArrives, ShowWorkspaces
  <1>3. IF W = {} THEN active' = None ELSE active' \in W
    BY <1>2, ValidActiveHas, ActiveAfter
  <1>4. active' # None => group'[active'].tabs # {}
    BY DEF ViewInv, GroupsSound, Sound
  <1>5. None \notin W
    BY TabsAssumption
  <1> QED
    BY <1>1, <1>3, <1>4, <1>5 DEF Stranding, NeverStranded

LEMMA StrandingHeal ==
  ASSUME SessionType, ViewInv, Stranding, AutoHeal
  PROVE  Stranding'
  <1>1. /\ fetched' = fetched /\ workspaces' = workspaces /\ overlay' = overlay /\ fetched
        /\ astray' = (astray /\ workspaces = {}) /\ Visible # None
    BY DEF AutoHeal
  <1>2. PICK a \in ValidActive(workspaces) : active' = a /\ group' = Valid(workspaces)
    BY ActiveAfter DEF AutoHeal
  <1>3. workspaces \in SUBSET Slugs /\ \A s \in workspaces : group'[s] = group[s]
    BY <1>2, ValidRemains DEF SessionType
  <1>4. active # None
    BY <1>1 DEF Visible, Shown
  <1>5. CASE workspaces = {}
    <2>1. ~ astray
          => active = None
      BY <1>1, <1>5 DEF Stranding, NeverStranded
    <2> QED
      BY <1>1, <1>4, <1>5, <2>1 DEF Stranding, NeverStranded
  <1>6. CASE workspaces # {}
    <2>1. PICK s \in workspaces : group[s].tabs # {}
      BY <1>6 DEF Stranding
    <2>2. s \in Grouped(Valid(workspaces))
      BY <1>2, <1>3, <2>1 DEF Grouped
    <2>3. a # None
      BY <1>3, <1>4, <2>2, TabsAssumption DEF ValidActive, Grouped
    <2>4. active' \in workspaces
      BY <1>2, <1>3, <2>3, ValidActiveHas
    <2> QED
      BY <1>1, <1>3, <1>6, <2>1, <2>4 DEF Stranding, NeverStranded
  <1> QED
    BY <1>5, <1>6

LEMMA StrandingNext == SessionType /\ ViewInv /\ Stranding /\ [Next]_vars => Stranding'
  <1> SUFFICES ASSUME SessionType, ViewInv, Stranding, [Next]_vars PROVE Stranding'
    OBVIOUS
  <1>1. ViewInv'
    BY InvNext
  <1>2. CASE Logout \/ Restart
    BY <1>2 DEF Logout, Restart, Stranding, NeverStranded
  <1>3. CASE UNCHANGED vars
    BY <1>3 DEF vars, session, view, Stranding, NeverStranded
  <1> QED
    BY <1>1, <1>2, <1>3, StrandingPush, StrandingBar, StrandingOverlay, StrandingList, StrandingHeal DEF Next

\* A user with workspaces is shown one of them and a user without any has the
\* overlay, after any sequence of lists, pushes, late ones too, auto-heals,
\* logouts and restarts, but for what the variable astray stands for.
THEOREM NobodyStranded == Spec => []NeverStranded
  <1>1. Stranding => NeverStranded
    BY DEF Stranding
  <1>2. (SessionType /\ ViewInv) /\ Stranding /\ [Next]_vars => Stranding'
    BY StrandingNext
  <1> QED
    BY <1>1, <1>2, StrandingInit, Invariance, PTL DEF Spec

-----------------------------------------------------------------------------
(* A navigation lands.  A search for a tab at a path believes the store's    *)
(* copies, and the copy of the tab in front is true: each event of its       *)
(* router is followed, and each change of the store copies the path of what  *)
(* it brings to the front.                                                   *)

VisibleTrue == Visible # None => tab[Visible].path = Location(router[Visible])

LEMMA StoreCopies ==
  ASSUME ViewInv', NEW a, NEW g, NEW t \in [Ids -> Copies], NEW r, Store(a, g, t, r)
  PROVE  VisibleTrue'
  <1> DEFINE t1 == [i \in Ids |-> IF i \in Open(g) THEN t[i] ELSE NewTabAt(Root)]
  <1> SUFFICES ASSUME NEW v, v = Shown(active', group'), v # None
               PROVE  tab'[v].path = Location(router'[v])
    BY DEF VisibleTrue, Visible
  <1>1. v \in Ids
    BY ShownType DEF ViewInv, ViewType, GroupsSound, Open, Groups
  <1>2. tab' = [t1 EXCEPT ![v].path = Location(router'[v])]
    BY DEF Store, SyncVisible
  <1>3. t1 \in [Ids -> Copies]
    BY FreshRouter
  <1> HIDE DEF t1
  <1> QED
    BY <1>1, <1>2, <1>3 DEF Copies

LEMMA MakeTabCopies ==
  ASSUME ViewInv, ViewInv', NEW g, NEW s, NEW p \in Paths \cup {Root}, MakeTab(g, s, p)
  PROVE  VisibleTrue'
  <1>1. PICK id \in Ids \ Open(group) :
          Store(s, [g EXCEPT ![s] = [tabs |-> @.tabs \cup {id}, activeTabId |-> id]],
                [tab EXCEPT ![id] = NewTabAt(p)], [router EXCEPT ![id] = RouterAt(p)])
    BY DEF MakeTab
  <1>2. [tab EXCEPT ![id] = NewTabAt(p)] \in [Ids -> Copies]
    BY FreshRouter DEF ViewInv, ViewType
  <1> QED
    BY <1>1, <1>2, StoreCopies

LEMMA ChangeCopies ==
  ASSUME ViewInv, ViewInv'
  PROVE  /\ \A a, g, r : Store(a, g, tab, r) => VisibleTrue'
         /\ \A s : \A p \in Paths : OpenAt(s, p) => VisibleTrue'
         /\ \A g : \A s \in Slugs : Resume(g, s) => VisibleTrue'
  <1>1. ASSUME NEW a, NEW g, NEW r, Store(a, g, tab, r) PROVE VisibleTrue'
    BY <1>1, StoreCopies DEF ViewInv, ViewType
  <1>2. ASSUME NEW s, NEW p \in Paths, OpenAt(s, p) PROVE VisibleTrue'
    BY <1>1, <1>2, MakeTabCopies DEF OpenAt
  <1>3. ASSUME NEW g, NEW s \in Slugs, Resume(g, s) PROVE VisibleTrue'
    <2>1. defaultPathFor(s) \in Paths
      BY TabsAssumption DEF defaultPathFor, Paths
    <2> QED
      BY <1>1, <1>3, <2>1, MakeTabCopies DEF Resume
  <1> QED
    BY <1>1, <1>2, <1>3

LEMMA FollowCopies ==
  ASSUME ViewInv, Visible # None, NEW r, NEW n, Follow(r, n)
  PROVE  VisibleTrue'
  <1>1. Visible' = Visible /\ Visible \in Ids
    BY VisibleOpen DEF Follow, Visible
  <1>2. PICK v \in Ids : v = Visible
    BY <1>1
  <1>3. tab'[v].path = Location(r) /\ router'[v] = r
    BY <1>2 DEF Follow, ViewInv, ViewType
  <1>4. Location(router'[v]) = Location(r)
    BY <1>3
  <1>5. Visible' = v
    BY <1>1, <1>2
  <1> QED
    BY <1>3, <1>4, <1>5 DEF VisibleTrue

LEMMA MovesCopy ==
  ASSUME ViewInv
  PROVE  /\ \A p : Push(p) \/ Replace(p) => VisibleTrue'
         /\ Back \/ Forward => VisibleTrue'
  BY FollowCopies DEF Push, Replace, Back, GoBack, Forward

LEMMA StillTrue ==
  ASSUME VisibleTrue, UNCHANGED view
  PROVE  VisibleTrue'
  BY DEF VisibleTrue, Visible, Shown, view, Location

LEMMA CopyNext ==
  ASSUME SessionType, ViewInv, VisibleTrue, [Next]_vars
  PROVE  VisibleTrue'
  <1>0. ViewInv'
    BY InvNext
  <1>1. ASSUME NEW p \in Paths, Navigate(p) \/ OpenInNewTab(p) \/ InternalLink(p) PROVE VisibleTrue'
    BY <1>0, <1>1, ChangeCopies, MovesCopy DEF Navigate, OpenInNewTab, InternalLink, SwitchWorkspace
  <1>2. ASSUME NEW p \in Paths, LatePush(p) PROVE VisibleTrue'
    <2>1. CASE UNCHANGED view
      BY <2>1, StillTrue
    <2>2. ASSUME NEW id \in Ids, MoveHidden(id, p) PROVE VisibleTrue'
      <3>1. id # Visible /\ UNCHANGED <<active, group, tab>>
            /\ \E r : router' = [router EXCEPT ![id] = r]
        BY <2>2 DEF MoveHidden
      <3>2. Visible' = Visible
        BY <3>1 DEF Visible
      <3>3. ASSUME NEW v \in Ids, v = Visible
            PROVE  router'[v] = router[v] /\ tab'[v] = tab[v]
        BY <3>1, <3>3 DEF ViewInv, ViewType
      <3> QED
        BY <3>2, <3>3, VisibleOpen DEF VisibleTrue, Location
    <2> QED
      BY <1>2, <2>1, <2>2 DEF LatePush
  <1>3. CASE Back \/ Forward \/ NewTab \/ \E id \in Ids : SetActiveTab(id) \/ CloseTab(id)
    <2>1. ASSUME NEW g, NEW s \in Slugs, MakeTab(g, s, defaultPathFor(s)) PROVE VisibleTrue'
      <3>1. defaultPathFor(s) \in Paths
        BY TabsAssumption DEF defaultPathFor, Paths
      <3> QED
        BY <1>0, <2>1, <3>1, MakeTabCopies
    <2>2. active # None => active \in Slugs
      BY DEF ViewInv, ViewType
    <2>3. CASE Back \/ Forward
      BY <2>3, MovesCopy
    <2>4. CASE NewTab
      BY <2>1, <2>2, <2>4 DEF NewTab
    <2>5. ASSUME NEW id \in Ids, SetActiveTab(id) \/ CloseTab(id) PROVE VisibleTrue'
      BY <1>0, <2>1, <2>2, <2>5, ChangeCopies DEF SetActiveTab, CloseTab
    <2> QED
      BY <1>3, <2>3, <2>4, <2>5
  <1>4. CASE OpenInvite \/ DeclineInvite \/ CloseOverlay
    BY <1>4, MovesCopy, StillTrue DEF OpenInvite, DeclineInvite, NewWorkspaceOverlay, CloseOverlay
  <1>5. ASSUME NEW W \in SUBSET Slugs, ListArrives(W) PROVE VisibleTrue'
    BY <1>0, <1>5, ChangeCopies DEF ListArrives, ShowWorkspaces
  <1>6. \A s \in Slugs : defaultPathFor(s) \in Paths
    BY TabsAssumption DEF defaultPathFor, Paths
  <1>7. CASE AutoHeal \/ Leave
    BY <1>0, <1>6, <1>7, ChangeCopies, MovesCopy, StillTrue
    DEF AutoHeal, Leave, NewWorkspaceOverlay, SwitchWorkspace, SessionType
  <1>8. CASE Logout
    BY <1>0, <1>8, ChangeCopies DEF Logout
  <1>9. CASE Restart
    <2>1. router' = [i \in Ids |-> RouterAt(tab'[i].path)]
      BY <1>9 DEF Restart
    <2>2. ASSUME NEW v, v = Shown(active', group'), v # None
          PROVE  tab'[v].path = Location(router'[v])
      <3>1. v \in Ids
        BY <1>0, <2>2, ShownType DEF ViewInv, ViewType, GroupsSound, Open, Groups
      <3>2. tab'[v].path \in Paths \cup {Root}
        BY <1>0, <3>1 DEF ViewInv, ViewType, Copies
      <3>3. router'[v] = RouterAt(tab'[v].path)
        BY <2>1, <3>1
      <3> QED
        BY <3>2, <3>3, FreshRouter
    <2> QED
      BY <2>2 DEF VisibleTrue, Visible
  <1>10. CASE UNCHANGED vars
    BY <1>10, StillTrue DEF vars
  <1> QED
    BY <1>1, <1>2, <1>3, <1>4, <1>5, <1>7, <1>8, <1>9, <1>10 DEF Next

\* The tab in front at p, in p's workspace
Landed(p) == active' = p.slug /\ Location(router'[Visible']) = p

LEMMA MakeTabLands ==
  ASSUME ViewInv, NEW s \in Slugs, NEW p \in Paths, p.slug = s, MakeTab(group, s, p)
  PROVE  Landed(p)
  <1>1. PICK id \in Ids \ Open(group) :
          Store(s, [group EXCEPT ![s] = [tabs |-> @.tabs \cup {id}, activeTabId |-> id]],
                [tab EXCEPT ![id] = NewTabAt(p)], [router EXCEPT ![id] = RouterAt(p)])
    BY DEF MakeTab
  <1> DEFINE h == [group EXCEPT ![s] = [tabs |-> @.tabs \cup {id}, activeTabId |-> id]]
  <1>2. h[s].tabs = group[s].tabs \cup {id} /\ h[s].activeTabId = id
    BY DEF ViewInv, ViewType, Groups
  <1>3. id \in Open(h)
    BY <1>2 DEF Open
  <1>4. active' = s /\ group' = h
    BY <1>1 DEF Store
  <1>5. router'[id] = [router EXCEPT ![id] = RouterAt(p)][id]
    BY <1>1, <1>3 DEF Store
  <1>6. router'[id] = RouterAt(p)
    BY <1>5 DEF ViewInv, ViewType
  <1> HIDE DEF h
  <1>7. Visible' = id
    BY <1>2, <1>4, TabsAssumption DEF Visible, Shown
  <1> QED
    BY <1>4, <1>6, <1>7, FreshRouter DEF Landed

LEMMA OpenAtLands ==
  ASSUME ViewInv, VisibleTrue, NEW p \in Paths, p.slug \in Slugs,
         \A id \in group[p.slug].tabs \ {Visible} : tab[id].path = Location(router[id]),
         OpenAt(p.slug, p)
  PROVE  Landed(p)
  <1> DEFINE s == p.slug
  <1>1. CASE AtPath(s, p) = {}
    BY <1>1, MakeTabLands DEF OpenAt
  <1>2. CASE AtPath(s, p) # {}
    <2>1. PICK id \in AtPath(s, p) : Store(s, [group EXCEPT ![s] = Showing(id, @)], tab, router)
      BY <1>2 DEF OpenAt
    <2> DEFINE h == [group EXCEPT ![s] = Showing(id, @)]
    <2>2. id \in group[s].tabs /\ tab[id].path = p /\ id \in Ids
      BY <2>1 DEF AtPath, ViewInv, ViewType, Groups
    <2>3. h[s].tabs = group[s].tabs /\ h[s].activeTabId = id
      BY DEF ViewInv, ViewType, Groups, Showing
    <2>4. id \in Open(h)
      BY <2>2, <2>3 DEF Open
    <2>5. active' = s /\ group' = h
      BY <2>1 DEF Store
    <2>6. router'[id] = router[id]
      BY <2>1, <2>2, <2>4 DEF Store
    <2> HIDE DEF h
    <2>7. Visible' = id
      BY <2>3, <2>5, TabsAssumption DEF Visible, Shown
    <2>8. id # None
      BY <2>2, TabsAssumption
    <2>9. Location(router[id]) = p
      BY <2>2, <2>8 DEF VisibleTrue
    <2> QED
      BY <2>5, <2>6, <2>7, <2>9 DEF Landed
  <1> QED
    BY <1>1, <1>2

LEMMA MoveLands ==
  ASSUME ViewInv, NEW p \in Paths, p.slug = active, Push(p) \/ Replace(p)
  PROVE  Landed(p)
  <1>1. PICK v \in Ids : v = Visible
    BY VisibleOpen DEF Push, Replace
  <1>2. router[v] \in Routers
    BY DEF ViewInv, ViewType
  <1>3. \A r \in Routers : Location(Pushed(r, p)) = p /\ Location(Replaced(r, p)) = p
    <2> TAKE r \in Routers
    <2> DEFINE front == SubSeq(r.entries, 1, r.at)
    <2>1. front \in Seq(Paths \cup {Root}) /\ Len(front) = r.at
      BY DEF Routers
    <2>2. Append(front, p)[r.at + 1] = p
      BY <2>1 DEF Routers
    <2>3. Location(Pushed(r, p)) = p
      BY <2>2 DEF Pushed, Location
    <2>4. Location(Replaced(r, p)) = p
      BY DEF Replaced, Location, Routers
    <2> QED
      BY <2>3, <2>4
  <1>4. active' = active /\ group' = group /\ \E r : router'[v] = r /\ Location(r) = p
    <2>1. CASE Push(p)
      <3>1. Follow(Pushed(router[v], p), [index |-> ref[Visible].index + 1, length |-> ref[Visible].index + 2])
        BY <1>1, <2>1 DEF Push
      <3>2. router' = [router EXCEPT ![v] = Pushed(router[v], p)] /\ active' = active /\ group' = group
        BY <1>1, <3>1 DEF Follow
      <3> QED
        BY <1>2, <1>3, <3>2 DEF ViewInv, ViewType
    <2>2. CASE Replace(p)
      <3>1. Follow(Replaced(router[v], p), ref[Visible])
        BY <1>1, <2>2 DEF Replace
      <3>2. router' = [router EXCEPT ![v] = Replaced(router[v], p)] /\ active' = active /\ group' = group
        BY <1>1, <3>1 DEF Follow
      <3> QED
        BY <1>2, <1>3, <3>2 DEF ViewInv, ViewType
    <2> QED
      BY <2>1, <2>2
  <1>5. Visible' = v
    BY <1>1, <1>4 DEF Visible
  <1> QED
    BY <1>4, <1>5 DEF Landed

LEMMA NavigationStep ==
  ASSUME SessionType, ViewInv, VisibleTrue, NEW p \in Paths,
         \A id \in group[p.slug].tabs \ {Visible} : tab[id].path = Location(router[id]),
         Navigate(p) \/ OpenInNewTab(p)
  PROVE  Landed(p)
  <1>1. p.slug \in Slugs
    BY DEF Paths
  <1>2. OpenAt(p.slug, p) \/ (p.slug = active /\ (Push(p) \/ Replace(p)))
    BY DEF Navigate, OpenInNewTab, SwitchWorkspace
  <1> QED
    BY <1>1, <1>2, OpenAtLands, MoveLands

\* A navigation ends in front of the user, in the workspace and at the path
\* that was asked for, for any tabs, routers and workspaces.
THEOREM NavigationLands == Spec => PushLands
  <1>1. Init => VisibleTrue
    BY DEF Init, VisibleTrue, Visible, Shown
  <1>2. (SessionType /\ ViewInv) /\ VisibleTrue /\ [Next]_vars => VisibleTrue'
    BY CopyNext
  <1> DEFINE Lands == \A p \in Paths :
       /\ active' # p.slug \/ Location(router'[Visible']) # p
       /\ \A id \in group[p.slug].tabs \ {Visible} : tab[id].path = Location(router[id])
       => ~ Navigate(p) /\ ~ OpenInNewTab(p)
  <1>3. (SessionType /\ ViewInv) /\ VisibleTrue => Lands
    BY NavigationStep DEF Landed
  <1>4. Spec => [][Lands]_vars
    <2> HIDE DEF Lands
    <2> QED
      BY <1>1, <1>2, <1>3, Invariance, PTL DEF Spec
  <1> QED
    BY <1>4 DEF PushLands
=============================================================================
