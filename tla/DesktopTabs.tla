---------------------------- MODULE DesktopTabs ----------------------------
(* The desktop app's tabs (apps/desktop/src/renderer/src/stores/tab-store.ts *)
(* and platform/navigation.tsx): one group of tabs for each workspace, one   *)
(* memory router for each tab, a copy of the router's path and history       *)
(* counters in the store that is kept only while the tab is visible, and an  *)
(* overlay for the flows that belong to no workspace.                        *)
EXTENDS Naturals, Sequences

CONSTANTS
  Slugs,      \* workspaces
  Pages,      \* routes of a workspace; "issues" is the default one
  Ids,        \* tab ids (bound on the tabs that are open at once)
  None,
  LateMoves,  \* how a page that is not in front navigates: "push", "replace"
  MaxDepth    \* bound on a router's history

ASSUME TabsAssumption ==
  /\ None \notin Slugs \cup Ids /\ "issues" \in Pages
  /\ LateMoves \subseteq {"push", "replace"} /\ MaxDepth \in Nat \ {0}

VARIABLES
  fetched,    \* a user is logged in and the workspace list has arrived
  workspaces, \* that list
  astray,     \* history: a push has named a workspace the list does not have,
              \* and neither a list nor the auto-heal has put this right since
  overlay,    \* the window overlay: "none", "new-workspace" or "invite"
  active,     \* activeWorkspaceSlug
  group,      \* byWorkspace: [tabs, activeTabId]; no tabs: no group
  tab,        \* per tab, what the store keeps: [path, historyIndex, historyLength]
  router,     \* per tab, the memory router: [entries, at]
  ref,        \* per tab, useTabRouterSync's counters: [index, length]
  unseen      \* history: the open tabs whose router has moved while hidden

session == <<fetched, workspaces, astray>>
view    == <<active, group, tab, router, ref, unseen>>
vars    == <<session, overlay, view>>

Root  == [slug |-> None, page |-> "root"]
Paths == [slug : Slugs, page : Pages]
defaultPathFor(s) == [slug |-> s, page |-> "issues"]

NoGroup     == [tabs |-> {}, activeTabId |-> None]
NewRef      == [index |-> 0, length |-> 1]
NewTabAt(p) == [path |-> p, historyIndex |-> 0, historyLength |-> 1]
RouterAt(p) == [entries |-> <<p>>, at |-> 1]
Location(r) == r.entries[r.at]

Open(g)     == UNION {g[s].tabs : s \in Slugs}
Grouped(g)  == {s \in Slugs : g[s].tabs # {}}
Shown(a, g) == IF a = None THEN None ELSE g[a].activeTabId
Visible     == Shown(active, group)

-----------------------------------------------------------------------------
(* Effects of React.  A tab that becomes visible copies its router's path    *)
(* into the store.  The tabs of a workspace mount when it is shown, with     *)
(* fresh counters, while their routers still have their history.            *)

SyncVisible(t) ==
  LET v == Shown(active', group') IN
  tab' = IF v = None THEN t ELSE [t EXCEPT ![v].path = Location(router'[v])]

\* A change of the store.  Ids that are not open any more are forgotten.
Store(a, g, t, r) ==
  LET open == Open(g)
      kept == IF a = active THEN open \cap Open(group) ELSE {} IN
  /\ active' = a /\ group' = g
  /\ router' = [i \in Ids |-> IF i \in open THEN r[i] ELSE RouterAt(Root)]
  /\ SyncVisible([i \in Ids |-> IF i \in open THEN t[i] ELSE NewTabAt(Root)])
  /\ ref' = [i \in Ids |-> IF i \in kept THEN ref[i] ELSE NewRef]
  /\ unseen' = unseen \cap open

\* makeTab(path) with an id never used before (Ids bounds the open tabs), into
\* workspace s of g; the active workspace becomes s.
MakeTab(g, s, p) ==
  \E id \in Ids \ Open(group) :
    Store(s, [g EXCEPT ![s] = [tabs |-> @.tabs \cup {id}, activeTabId |-> id]],
          [tab EXCEPT ![id] = NewTabAt(p)], [router EXCEPT ![id] = RouterAt(p)])

Showing(id, g) == [tabs |-> g.tabs, activeTabId |-> id]

\* The tabs of workspace s that the store has at path p.
AtPath(s, p) == {id \in group[s].tabs : tab[id].path = p}

\* A tab at this path, found or made.  Tabs can be dragged into any order, so
\* the first of several may be any of them.
OpenAt(s, p) ==
  IF AtPath(s, p) = {} THEN MakeTab(group, s, p)
  ELSE \E id \in AtPath(s, p) : Store(s, [group EXCEPT ![s] = Showing(id, @)], tab, router)

\* switchWorkspace(slug), from the groups g: the group as it was left, or a
\* first tab.  With an openPath: the tab at this path.
Resume(g, s) ==
  IF g[s].tabs # {} THEN Store(s, g, tab, router) ELSE MakeTab(g, s, defaultPathFor(s))

SwitchWorkspaceOnly(p) == Resume(group, p.slug) \* mutant: no look at the path

SwitchWorkspace(p) == OpenAt(p.slug, p)

-----------------------------------------------------------------------------
Init ==
  /\ fetched = FALSE /\ workspaces = {} /\ astray = FALSE /\ overlay = "none"
  /\ active = None /\ group = [s \in Slugs |-> NoGroup]
  /\ tab = [i \in Ids |-> NewTabAt(Root)]
  /\ router = [i \in Ids |-> RouterAt(Root)]
  /\ ref = [i \in Ids |-> NewRef] /\ unseen = {}

-----------------------------------------------------------------------------
(* The visible tab's router, and useTabRouterSync, which follows it.        *)

Pushed(r, p)   == [entries |-> Append(SubSeq(r.entries, 1, r.at), p), at |-> r.at + 1]
Replaced(r, p) == [r EXCEPT !.entries[r.at] = p]
WentBack(r)    == [entries |-> r.entries, at |-> IF r.at = 1 THEN 1 ELSE r.at - 1]
WentForward(r) == [entries |-> r.entries, at |-> IF r.at = Len(r.entries) THEN r.at ELSE r.at + 1]

Follow(r, n) == \* the router after the event, the counters after it
  /\ router' = [router EXCEPT ![Visible] = r]
  /\ ref' = [ref EXCEPT ![Visible] = n]
  /\ tab' = [tab EXCEPT ![Visible] = [path |-> Location(r), historyIndex |-> n.index, historyLength |-> n.length]]
  /\ UNCHANGED <<active, group, unseen>>

Push(p) ==
  /\ Visible # None /\ router[Visible].at < MaxDepth
  /\ Follow(Pushed(router[Visible], p), [index |-> ref[Visible].index + 1, length |-> ref[Visible].index + 2])

Replace(p) == Visible # None /\ Follow(Replaced(router[Visible], p), ref[Visible])

\* The back button, or a page's own.  Memory history stops at its ends; a
\* history event comes in any case, and the counters follow the event.
GoBack(index) ==
  /\ Visible # None
  /\ Follow(WentBack(router[Visible]), [index |-> index, length |-> ref[Visible].length])
  /\ UNCHANGED <<session, overlay>>

BackUncounted == GoBack(ref[Visible].index)     \* mutant: the counters stay
BackUnclamped == GoBack(ref[Visible].index - 1) \* mutant: no Math.max(0, ...)

Back == GoBack(IF ref[Visible].index = 0 THEN 0 ELSE ref[Visible].index - 1)

\* The forward button is enabled by the store's counters.
Forward ==
  LET n == ref[Visible] IN
  /\ Visible # None /\ tab[Visible].historyIndex + 1 < tab[Visible].historyLength
  /\ Follow(WentForward(router[Visible]),
            [index |-> IF n.index + 1 < n.length THEN n.index + 1 ELSE n.index, length |-> n.length])
  /\ UNCHANGED <<session, overlay>>

-----------------------------------------------------------------------------
(* The navigation adapters.  A path of another workspace is handed to the    *)
(* store, a path of this one to the tab's router; both close the overlay.    *)
(* Nobody asks whether the list has the workspace.                           *)

Went(p) ==
  /\ astray' = (fetched /\ p.slug \notin workspaces)
  /\ UNCHANGED <<fetched, workspaces>>

Navigate(p) ==
  /\ Went(p) /\ overlay' = "none"
  /\ IF p.slug # active THEN SwitchWorkspace(p) ELSE Push(p) \/ Replace(p)

OpenInNewTab(p) ==
  /\ Went(p) /\ UNCHANGED overlay
  /\ IF p.slug # active THEN SwitchWorkspace(p) ELSE OpenAt(active, p)

\* A link in a text opens in the group of the active workspace, whatever
\* workspace it names (desktop-layout.tsx, useInternalLinkHandler).
InternalLink(p) ==
  /\ active # None /\ OpenAt(active, p)
  /\ UNCHANGED <<session, overlay>>

\* A page that is not in front any more, because its tab has been hidden,
\* closed or dropped, navigates when an answer arrives.  To another workspace
\* it goes like any page (Navigate); within the active one it moves a router
\* that no one follows, or that of a closed tab, which shows nowhere.
MoveHidden(id, p) ==
  /\ id \in Open(group) \ {Visible}
  /\ \E how \in LateMoves :
       /\ how = "push" => router[id].at < MaxDepth
       /\ router' = [router EXCEPT ![id] = IF how = "push" THEN Pushed(@, p) ELSE Replaced(@, p)]
  /\ unseen' = unseen \cup {id}
  /\ UNCHANGED <<active, group, tab, ref>>

LatePush(p) ==
  /\ p.slug = active
  /\ UNCHANGED view \/ \E id \in Ids : MoveHidden(id, p)
  /\ overlay' = "none"
  /\ Went(p)

-----------------------------------------------------------------------------
(* The overlay.  The one for a new workspace leaves the tab below at "/".    *)

NewWorkspaceOverlay ==
  /\ overlay' = "new-workspace"
  /\ IF Visible = None THEN UNCHANGED view ELSE Replace(Root)

\* A deep link, at any time: nobody need be logged in
OpenInvite ==
  /\ overlay' = "invite"
  /\ UNCHANGED <<session, view>>

\* A declined invitation leads to the first workspace, or to a new one.
DeclineInvite ==
  /\ overlay = "invite" /\ workspaces = {}
  /\ NewWorkspaceOverlay
  /\ UNCHANGED session

CloseOverlayAlways == \* mutant: Back is always offered
  /\ overlay # "none" /\ overlay' = "none"
  /\ UNCHANGED <<session, view>>

\* Back, offered while there is a workspace to go back to
CloseOverlay ==
  /\ overlay # "none" /\ workspaces # {}
  /\ overlay' = "none"
  /\ UNCHANGED <<session, view>>

-----------------------------------------------------------------------------
(* The tab bar *)

\* addTab and setActiveTab, without a look for a tab at this path
NewTab ==
  /\ active # None /\ MakeTab(group, active, defaultPathFor(active))
  /\ UNCHANGED <<session, overlay>>

SetActiveTab(id) ==
  /\ active # None /\ id \in group[active].tabs \ {Visible}
  /\ Store(active, [group EXCEPT ![active] = Showing(id, @)], tab, router)
  /\ UNCHANGED <<session, overlay>>

CloseTabOnly(id) == \* mutant: the closed tab stays the active one
  /\ active # None /\ id \in group[active].tabs /\ group[active].tabs # {id}
  /\ Store(active, [group EXCEPT ![active].tabs = @ \ {id}], tab, router)
  /\ UNCHANGED <<session, overlay>>

\* The last tab of a group gives way to a default one, an active one to a
\* neighbour.
CloseTab(id) ==
  /\ active # None /\ id \in group[active].tabs
  /\ IF group[active].tabs = {id}
     THEN MakeTab([group EXCEPT ![active] = NoGroup], active, defaultPathFor(active))
     ELSE \E next \in group[active].tabs \ {id} :
            /\ id # Visible => next = Visible
            /\ Store(active, [group EXCEPT ![active] = [tabs |-> @.tabs \ {id}, activeTabId |-> next]], tab, router)
  /\ UNCHANGED <<session, overlay>>

-----------------------------------------------------------------------------
(* Workspaces come and go.  App.tsx validates the groups against every list  *)
(* that arrives, then shows a workspace, or the overlay if there is none.    *)

\* validateWorkspaceSlugs
Valid(W) == [s \in Slugs |-> IF s \in W THEN group[s] ELSE NoGroup]

\* The active workspace it leaves: the same, the first of the remaining groups
\* (Object.keys(...)[0]), or none
ValidActive(W) ==
  IF active \in W THEN {active}
  ELSE IF active = None \/ Grouped(Valid(W)) = {} THEN {None} ELSE Grouped(Valid(W))

ShowWorkspaces(W) ==
  \E a \in ValidActive(W) :
    IF a = None /\ W # {} THEN \E s \in W : Resume(Valid(W), s) \* workspaces[0]
    ELSE Store(a, Valid(W), tab, router)

\* App.tsx's effects run when the list changes, also when only other columns
\* of the same workspaces do.  After a workspace is made the form navigates
\* there: its onSuccess puts the workspace into the list, then Navigate.
ListArrives(W) ==
  /\ ~ fetched \/ W # {} \/ workspaces # {}
  /\ fetched' = TRUE /\ workspaces' = W /\ astray' = FALSE
  /\ ShowWorkspaces(W)
  /\ overlay' = IF W = {} /\ overlay = "none" THEN "new-workspace" ELSE overlay

\* The visible tab's layout finds no workspace for the slug of its path and
\* validates the groups again.  (A layout that has shown this workspace before
\* leaves it to ListArrives; the model lets it heal too.)
AutoHeal ==
  /\ fetched /\ Visible # None /\ Location(router[Visible]).slug \in Slugs \ workspaces
  /\ \E a \in ValidActive(workspaces) : Store(a, Valid(workspaces), tab, router)
  /\ astray' = (astray /\ workspaces = {})
  /\ UNCHANGED <<fetched, workspaces, overlay>>

\* Leave or delete: the settings page navigates away, then asks the server,
\* which answers with a list (ListArrives) or refuses (and nothing changes).
Leave ==
  /\ active \in workspaces
  /\ \/ workspaces = {active} /\ NewWorkspaceOverlay
     \/ \E s \in workspaces \ {active} : SwitchWorkspace(defaultPathFor(s)) /\ overlay' = "none"
  /\ UNCHANGED session

Logout ==
  /\ fetched' = FALSE /\ workspaces' = {} /\ astray' = FALSE /\ overlay' = "none"
  /\ Store(None, [s \in Slugs |-> NoGroup], tab, router)

\* The app is opened again: partialize, then merge, which drops the tabs whose
\* path is not of their group's workspace.
Restored(s) == {id \in group[s].tabs : tab[id].path.slug = s}

\* The active tab of a restored group: the same if it is still there
ShownAgain(s, id) ==
  IF Restored(s) = {} THEN id = None
  ELSE id \in Restored(s) /\ group[s].activeTabId \in {id} \cup (Ids \ Restored(s))

Restart ==
  /\ fetched' = FALSE /\ workspaces' = {} /\ astray' = FALSE /\ overlay' = "none"
  /\ \E shown \in {f \in [Slugs -> Ids \cup {None}] : \A s \in Slugs : ShownAgain(s, f[s])}, a \in Slugs \cup {None} :
       LET g == [s \in Slugs |-> [tabs |-> Restored(s), activeTabId |-> shown[s]]] IN
       /\ IF Grouped(g) = {} THEN a = None
          ELSE IF active \in Grouped(g) THEN a = active ELSE a \in Grouped(g)
       /\ active' = a /\ group' = g
       /\ tab' = [i \in Ids |-> NewTabAt(IF i \in Open(g) THEN tab[i].path ELSE Root)]
       /\ router' = [i \in Ids |-> RouterAt(tab'[i].path)]
  /\ ref' = [i \in Ids |-> NewRef] /\ unseen' = {}

-----------------------------------------------------------------------------
Next ==
  \/ \E p \in Paths : Navigate(p) \/ OpenInNewTab(p) \/ InternalLink(p) \/ LatePush(p)
  \/ \E id \in Ids : SetActiveTab(id) \/ CloseTab(id)
  \/ Back \/ Forward \/ NewTab
  \/ OpenInvite \/ DeclineInvite \/ CloseOverlay
  \/ \E W \in SUBSET Slugs : ListArrives(W)
  \/ AutoHeal \/ Leave \/ Logout \/ Restart

Spec == Init /\ [][Next]_vars

-----------------------------------------------------------------------------
TypeOK ==
  /\ fetched \in BOOLEAN /\ workspaces \subseteq Slugs /\ astray \in BOOLEAN
  /\ overlay \in {"none", "new-workspace", "invite"}
  /\ active \in Slugs \cup {None}
  /\ group \in [Slugs -> [tabs : SUBSET Ids, activeTabId : Ids \cup {None}]]
  /\ tab \in [Ids -> [path : Paths \cup {Root}, historyIndex : Nat, historyLength : Nat \ {0}]]
  /\ router \in [Ids -> [entries : Seq(Paths \cup {Root}), at : Nat \ {0}]]
  /\ \A i \in Ids : router[i].at <= Len(router[i].entries)
  /\ ref \in [Ids -> [index : Nat, length : Nat \ {0}]]
  /\ unseen \subseteq Open(group)

Sound(a, g) ==
  /\ a # None => g[a].tabs # {}
  /\ \A s \in Slugs : IF g[s].tabs = {} THEN g[s] = NoGroup ELSE g[s].activeTabId \in g[s].tabs
  /\ \A s, t \in Slugs : s # t => g[s].tabs \cap g[t].tabs = {}

\* Every group has its active tab among its tabs, the workspace shown has a
\* group, and no tab is in two groups: through deduplication, closing,
\* validation, a merge that drops tabs, and pages that navigate late.
GroupsSound == Sound(active, group)

\* A user with workspaces is shown one of them, a user without any the overlay:
\* there is no blank window with no way out.  A push to a workspace the list
\* does not have puts this off, until a list arrives or, for a user with
\* workspaces, until the auto-heal.
NeverStranded ==
  fetched /\ ~ astray =>
    IF workspaces = {} THEN active = None /\ overlay # "none" ELSE active \in workspaces

\* A back button that is enabled goes back, in every tab whose router has only
\* moved while it was visible: although the counters restart at zero whenever
\* the workspace is left, and the store's copy of them does not.
BackIsHonest == \A id \in Open(group) \ unseen : tab[id].historyIndex < router[id].at

\* A navigation ends with a visible tab at the path that was asked for, in the
\* workspace of this path, if the copies of the tabs hidden there are true.
PushLands ==
  [][\A p \in Paths :
       /\ active' # p.slug \/ Location(router'[Visible']) # p
       /\ \A id \in group[p.slug].tabs \ {Visible} : tab[id].path = Location(router[id])
       => ~ Navigate(p) /\ ~ OpenInNewTab(p)]_vars
=============================================================================
