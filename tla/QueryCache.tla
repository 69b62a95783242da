----------------------------- MODULE QueryCache -----------------------------
(***************************************************************************)
(* The client's query cache (packages/core): one cached query, its         *)
(* fetches, the mutation hooks that patch it before the server answers,    *)
(* and the websocket events that tell the client what others wrote.        *)
(*                                                                         *)
(* The module follows ONE query, `key`, any of Keys.  Its data is the set  *)
(* of writes it shows; the server's truth is the set of writes committed.  *)
(* Two writes are taken to touch different rows or fields, so showing one  *)
(* is adding it; but an event that carries a whole row puts back what that *)
(* row was when its own write was committed.  A hook or an event is a      *)
(* record that says which queries it touches and how; only its effect on   *)
(* `key` is kept in the state.                                             *)
(* The query library (TanStack Query) is external: it is modelled from     *)
(* what the calls in packages/core rely on.                                *)
(***************************************************************************)
EXTENDS Naturals, Sequences, FiniteSets, TLC

CONSTANTS Keys,         \* the queries looked at
          Hooks,        \* the mutation hooks this client's user calls
          MaxWrites,    \* bound: writes by anyone
          MaxFaults,    \* bound: failed fetches, refused or unanswered calls, sockets that
                        \* drop and times the workspace is left
          Absent        \* the data of a query that is not cached

W == 1 .. MaxWrites

ASSUME Bounds == MaxWrites \in Nat /\ MaxFaults \in Nat
ASSUME AbsentIsNoData == \A data \in SUBSET W : Absent # data

-----------------------------------------------------------------------------
(* The query keys, by the prefixes the code invalidates them with *)

IssueLists == {"issues", "teamIssues"}
Issues == IssueLists \cup {"myIssues", "issue"}
Details == {"timeline", "reactions", "subscribers"} \* of one issue; not under issueKeys.all
Cycles == {"cycles", "cycle", "activeCycle", "cycleIssues"}
Stats == Cycles \cup {"milestones", "dashboard"}
ProjectLists == {"projects", "teamProjects"}
Projects == ProjectLists \cup {"project", "roadmap"}
Teams == {"teams", "team"}
Autopilots == {"autopilots", "autopilot", "runs"}
Sessions == {"sessions", "allSessions"}
Tickets == {"tickets", "ticket", "ticketMessages"}
Portal == {"portalTickets", "portalTicket", "portalMessages"}

-----------------------------------------------------------------------------
(* The mutation hooks.  writes: the queries whose rows the call changes;   *)
(* event: what the server publishes; cancel, patch, drop: what onMutate    *)
(* does (begin: adds to even when nothing is cached); seed: what onSuccess *)
(* adds to, start: the ones of these it creates when nothing is cached;    *)
(* settle: what onSettled invalidates.  unheard: queries the write reaches *)
(* although its event refreshes them on no client; lost: the ones its own  *)
(* hook does not refresh either; labels: the ones whose issues get other   *)
(* labels.                                                                 *)

Plain == [writes |-> {}, event |-> "none", cancel |-> {}, patch |-> {}, begin |-> {},
          drop |-> {}, seed |-> {}, start |-> {}, settle |-> {}, unheard |-> {}, lost |-> {},
          labels |-> {}]

useCreateIssue == [Plain EXCEPT !.writes = IssueLists \cup {"myIssues"} \cup Stats,
    !.event = "issue:created", !.seed = IssueLists \cup {"cycleIssues"},
    !.settle = IssueLists \cup Stats, !.unheard = {"teamIssues"}]

useUpdateIssue == [Plain EXCEPT !.writes = Issues \cup Stats \cup {"inbox"},
    !.event = "issue:updated", !.cancel = IssueLists \cup {"cycleIssues"},
    !.patch = IssueLists \cup {"cycleIssues", "issue"},
    !.settle = IssueLists \cup {"issue"} \cup Stats, !.unheard = {"teamIssues"}]

useDeleteIssue == [Plain EXCEPT !.writes = IssueLists \cup {"myIssues", "inbox", "pins"} \cup Stats,
    !.event = "issue:deleted", !.cancel = IssueLists \cup {"cycleIssues"},
    !.patch = IssueLists \cup {"cycleIssues"}, !.drop = {"issue"},
    !.settle = IssueLists \cup Stats, !.unheard = {"teamIssues", "pins"}, !.lost = {"pins"}]

useBatchUpdateIssues == [useUpdateIssue EXCEPT
    !.patch = {"issues", "cycleIssues"}, !.settle = IssueLists \cup Stats]

useBatchDeleteIssues == [useDeleteIssue EXCEPT
    !.patch = {"issues", "cycleIssues"}, !.drop = {}]

useCreateComment == [Plain EXCEPT !.writes = {"timeline"}, !.event = "comment:created",
    !.seed = {"timeline"}, !.settle = {"timeline"}]

useUpdateComment == [Plain EXCEPT !.writes = {"timeline"}, !.event = "comment:updated",
    !.cancel = {"timeline"}, !.patch = {"timeline"}, !.settle = {"timeline"}]

useDeleteComment == [useUpdateComment EXCEPT !.event = "comment:deleted"]

\* What is pending is shown by the view, not put into the cache.
useToggleCommentReaction == [Plain EXCEPT !.writes = {"timeline"},
    !.event = "reaction:added", !.settle = {"timeline"}]

useToggleIssueReaction == [Plain EXCEPT !.writes = {"reactions"},
    !.event = "issue_reaction:added", !.settle = {"reactions"}]

useToggleIssueSubscriber(subscribed) == [Plain EXCEPT !.writes = {"subscribers"},
    !.event = "subscriber:added", !.cancel = {"subscribers"}, !.patch = {"subscribers"},
    !.begin = IF subscribed THEN {} ELSE {"subscribers"}, !.settle = {"subscribers"}]

useCreateCycle == [Plain EXCEPT !.writes = {"cycles"}, !.event = "cycle", !.settle = {"cycles"}]

useUpdateCycle == [Plain EXCEPT !.writes = Cycles \ {"cycleIssues"}, !.event = "cycle",
    !.settle = Cycles]

\* The issues of a deleted cycle lose it.
useDeleteCycle == [useUpdateCycle EXCEPT !.writes = {"cycles", "activeCycle"} \cup Issues,
    !.unheard = Issues, !.lost = Issues]

useStartCycle == useUpdateCycle

\* Completing a cycle also moves its unfinished issues to the next one.
useCompleteCycle == [useUpdateCycle EXCEPT !.writes = Cycles \cup Issues,
    !.unheard = Issues, !.lost = Issues]

useCreateMilestone == [Plain EXCEPT !.writes = {"milestones"}, !.event = "milestone",
    !.seed = {"milestones"}, !.start = {"milestones"}, !.settle = {"milestones"}]

useUpdateMilestone == [Plain EXCEPT !.writes = {"milestones"}, !.event = "milestone",
    !.cancel = {"milestones"}, !.patch = {"milestones"}, !.settle = {"milestones"}]

useDeleteMilestone == [useUpdateMilestone EXCEPT
    !.writes = {"milestones", "cycleIssues"} \cup Issues,
    !.settle = {"milestones"} \cup IssueLists \cup Cycles,
    !.unheard = Issues \cup {"cycleIssues"}, !.lost = {"myIssues", "issue"}]

useReorderMilestones == [Plain EXCEPT !.writes = {"milestones"}, !.event = "milestone",
    !.settle = {"milestones"}]

useCreateLabel == [Plain EXCEPT !.writes = {"labels"}, !.event = "label",
    !.seed = {"labels"}, !.start = {"labels"}, !.settle = {"labels"}]

useUpdateLabel == [Plain EXCEPT !.writes = {"labels"} \cup Issues, !.labels = Issues, !.event = "label",
    !.cancel = {"labels"}, !.patch = {"labels"}, !.settle = {"labels"}]

useDeleteLabel == useUpdateLabel

\* Published as {id, labels}; the client's handler wants {issue} and returns.
useSetIssueLabels == [Plain EXCEPT !.writes = Issues, !.labels = Issues, !.event = "none",
    !.settle = IssueLists \cup {"issue"}, !.unheard = Issues, !.lost = {"myIssues"}]

useCreateTeam == [Plain EXCEPT !.writes = {"teams"}, !.event = "team",
    !.seed = {"teams"}, !.start = {"teams"}, !.settle = {"teams"}]

useUpdateTeam == [Plain EXCEPT !.writes = Teams, !.event = "team", !.settle = Teams]

\* The team's issues, projects and cycles go with it.
useDeleteTeam ==
    LET gone == (Issues \ {"issue"}) \cup (Projects \ {"project"}) \cup {"cycles", "activeCycle"}
    IN  [Plain EXCEPT !.writes = {"teams"} \cup gone, !.event = "team",
            !.cancel = {"teams"}, !.patch = {"teams"}, !.settle = {"teams"},
            !.unheard = gone, !.lost = gone]

useAddTeamMember == [Plain EXCEPT !.writes = {"teamMembers"}, !.event = "team_member",
    !.settle = {"teamMembers"}, !.unheard = {"teamMembers"}]

useRemoveTeamMember == useAddTeamMember

useCreatePin == [Plain EXCEPT !.writes = {"pins"}, !.event = "pin",
    !.seed = {"pins"}, !.start = {"pins"}, !.settle = {"pins"}]

useDeletePin == [Plain EXCEPT !.writes = {"pins"}, !.event = "pin",
    !.cancel = {"pins"}, !.patch = {"pins"}, !.settle = {"pins"}]

useReorderPins == [useDeletePin EXCEPT !.settle = {}]

useCreateProject == [Plain EXCEPT !.writes = Projects \ {"project"}, !.event = "project",
    !.seed = {"projects"}, !.settle = ProjectLists]

useUpdateProject == [Plain EXCEPT !.writes = Projects, !.event = "project",
    !.cancel = ProjectLists, !.patch = {"projects", "project"},
    !.settle = ProjectLists \cup {"project"}]

useReorderProjects == [Plain EXCEPT !.writes = Projects, !.event = "project",
    !.patch = {"projects"}, !.settle = ProjectLists]

\* Its issues lose it, its milestones and its pin go with it.
useDeleteProject ==
    LET touched == Issues \cup {"milestones", "pins"}
    IN  [Plain EXCEPT !.writes = (Projects \ {"project"}) \cup touched, !.event = "project",
            !.cancel = ProjectLists, !.patch = {"projects"}, !.drop = {"project"},
            !.settle = ProjectLists, !.unheard = touched, !.lost = touched]

useArchiveProject == useReorderProjects

useUnarchiveProject == useReorderProjects

useCreateAutopilot == [Plain EXCEPT !.writes = {"autopilots"}, !.event = "autopilot",
    !.seed = {"autopilots"}, !.settle = {"autopilots"}]

useUpdateAutopilot == [Plain EXCEPT !.writes = {"autopilots", "autopilot"},
    !.event = "autopilot", !.cancel = {"autopilots"}, !.patch = {"autopilots", "autopilot"},
    !.settle = {"autopilots", "autopilot"}]

useDeleteAutopilot == [Plain EXCEPT !.writes = {"autopilots"}, !.event = "autopilot",
    !.cancel = {"autopilots"}, !.patch = {"autopilots"}, !.drop = {"autopilot"},
    !.settle = {"autopilots"}]

useTriggerAutopilot == [Plain EXCEPT !.writes = Autopilots, !.event = "autopilot",
    !.settle = {"runs", "autopilot"}]

useCreateAutopilotTrigger == [Plain EXCEPT !.writes = {"autopilot"}, !.event = "autopilot",
    !.settle = {"autopilot"}]

useUpdateAutopilotTrigger == useCreateAutopilotTrigger

useDeleteAutopilotTrigger == useCreateAutopilotTrigger

useCreateChatSession == [Plain EXCEPT !.writes = Sessions, !.settle = Sessions,
    !.unheard = Sessions]

useMarkChatSessionRead == [Plain EXCEPT !.writes = Sessions, !.event = "chat:session_read",
    !.cancel = Sessions, !.patch = Sessions, !.settle = Sessions]

useArchiveChatSession == [useMarkChatSessionRead EXCEPT !.event = "none", !.unheard = Sessions]

useMarkInboxRead == [Plain EXCEPT !.writes = {"inbox"}, !.event = "inbox",
    !.cancel = {"inbox"}, !.patch = {"inbox"}, !.settle = {"inbox"}]

useArchiveInbox == useMarkInboxRead

useMarkAllInboxRead == useMarkInboxRead

useArchiveAllInbox == [Plain EXCEPT !.writes = {"inbox"}, !.event = "inbox",
    !.settle = {"inbox"}]

useArchiveAllReadInbox == useArchiveAllInbox

useArchiveCompletedInbox == useArchiveAllInbox

useCreateWorkspace == [Plain EXCEPT !.writes = {"workspaces"}, !.seed = {"workspaces"},
    !.start = {"workspaces"}, !.settle = {"workspaces"}, !.unheard = {"workspaces"}]

useLeaveWorkspace == [Plain EXCEPT !.writes = {"workspaces", "members"}, !.event = "member",
    !.settle = {"workspaces"}, !.unheard = {"workspaces"}]

useDeleteWorkspace == [Plain EXCEPT !.writes = {"workspaces"}, !.event = "workspace",
    !.settle = {"workspaces"}]

useDeleteRuntime == [Plain EXCEPT !.writes = {"runtimes"}, !.event = "daemon",
    !.settle = {"runtimes"}]

\* The server publishes nothing about tickets, clients and SLA policies.
Silent(keys, settled) ==
    [Plain EXCEPT !.writes = keys, !.settle = settled, !.unheard = keys]

useCreateTicket == Silent({"tickets"}, Tickets)

useUpdateTicket == Silent({"tickets", "ticket"}, Tickets)

useDeleteTicket == Silent({"tickets"}, Tickets)

\* A reply sets the ticket's status too.
useCreateTicketReply ==
    [Silent(Tickets, {"ticket", "ticketMessages"}) EXCEPT !.lost = {"tickets"}]

useCreateTicketNote == Silent({"ticketMessages"}, {"ticketMessages"})

useCreateClient == Silent({"clients"}, {"clients", "client"})

useUpdateClient == Silent({"clients", "client"}, {"clients", "client"})

useDeleteClient == useCreateClient

useCreateSLAPolicy == Silent({"slaPolicies"}, {"slaPolicies", "slaPolicy"})

useUpdateSLAPolicy == Silent({"slaPolicies", "slaPolicy"}, {"slaPolicies", "slaPolicy"})

useDeleteSLAPolicy == useCreateSLAPolicy

useLinkIssueToTicket == [Silent({"tickets", "ticket"}, {"ticket"}) EXCEPT !.lost = {"tickets"}]

\* The new issue is published no more than the ticket is.
useCreateIssueFromTicket ==
    LET born == IssueLists \cup {"myIssues", "dashboard", "tickets"}
    IN  [Silent({"ticket"} \cup born, {"ticket"}) EXCEPT !.lost = born]

useCreatePortalTicket == Silent({"portalTickets"}, {"portalTickets"})

useCreatePortalReply ==
    [Silent(Portal, {"portalTicket", "portalMessages"}) EXCEPT !.lost = {"portalTickets"}]

useResolvePortalTicket ==
    Silent({"portalTickets", "portalTicket"}, {"portalTickets", "portalTicket"})

useReopenPortalTicket == useResolvePortalTicket

useInviteTeammate == Silent({"clients"}, {"clients", "client"})

\* The status of an issue whose task failed is reset without an event of the
\* issue: task:failed is not for the issue's queries.  What an issue shows of its
\* parent and its milestone changes as silently, whoever renames them.
resetStuckIssue ==
    LET reset == Issues \cup Stats \cup {"inbox"}
    IN  [Plain EXCEPT !.writes = reset, !.unheard = reset]

\* What other people and the server itself write, besides calling these hooks.
Elsewhere ==
    {resetStuckIssue,
     [Plain EXCEPT !.writes = {"inbox"}, !.event = "inbox:new"],
     [Plain EXCEPT !.writes = {"timeline"}, !.event = "activity:created"],
     [Plain EXCEPT !.writes = {"subscribers"}, !.event = "subscriber:added"],
     [Plain EXCEPT !.writes = {"agents"}, !.event = "agent"],
     [Plain EXCEPT !.writes = {"members"}, !.event = "member"],
     [Plain EXCEPT !.writes = {"skills"}, !.event = "skill"],
     [Plain EXCEPT !.writes = {"runtimes"}, !.event = "daemon"],
     [Plain EXCEPT !.writes = {"workspaces"}, !.event = "workspace"],
     [Plain EXCEPT !.writes = Sessions, !.event = "chat:done"],
     [Plain EXCEPT !.writes = Autopilots, !.event = "autopilot"]}

-----------------------------------------------------------------------------
(* The realtime handlers: what each event does to which queries *)

\* Refreshes by event prefix, each debounced on its own.
refreshMap ==
    [inbox |-> {"inbox"}, agent |-> {"agents"}, member |-> {"members"},
     workspace |-> {"workspaces"}, skill |-> {"skills"}, project |-> Projects,
     label |-> {"labels"} \cup Issues, team |-> Teams, team_member |-> Teams,
     pin |-> {"pins"}, daemon |-> {"runtimes"}, autopilot |-> Autopilots,
     cycle |-> Cycles, milestone |-> {"milestones"}]

NoEffect == [patch |-> {}, row |-> {}, invalidate |-> {}, remove |-> {}, both |-> {}]

\* onIssueUpdated, the inbox's status patch, and the statistics: the event
\* carries the issue's row, or the status, as its own write left it.
onIssueUpdated == [NoEffect EXCEPT !.row = {"issues", "issue", "inbox"},
                                   !.invalidate = {"myIssues"} \cup Stats]

onIssueCreated == [NoEffect EXCEPT !.row = {"issues"}, !.invalidate = {"myIssues"} \cup Stats]

onIssueDeleted == [NoEffect EXCEPT !.patch = {"issues", "inbox"},
                                   !.invalidate = {"myIssues"} \cup Stats,
                                   !.remove = {"issue"} \cup Details]

Refreshes(keys) == [NoEffect EXCEPT !.invalidate = keys]

\* The events that the view of an open issue also patches in.  Every one of
\* them invalidates, whether the view is mounted or not.
useIssueTimeline == {"comment:created", "comment:updated", "comment:deleted",
                     "activity:created", "reaction:added"}
useIssueReactions == {"issue_reaction:added"}
useIssueSubscribers == {"subscriber:added"}
Granular(keys) == [NoEffect EXCEPT !.both = keys]

onInboxNew == Refreshes({"inbox"})

\* chat:done and chat:session_read
invalidateSessionLists == Refreshes(Sessions)

specificEvents ==
    "issue:updated" :> onIssueUpdated @@ "issue:created" :> onIssueCreated @@
    "issue:deleted" :> onIssueDeleted @@ "inbox:new" :> onInboxNew @@
    "chat:done" :> invalidateSessionLists @@ "chat:session_read" :> invalidateSessionLists @@
    [event \in useIssueTimeline |-> Granular({"timeline"})] @@
    [event \in useIssueReactions |-> Granular({"reactions"})] @@
    [event \in useIssueSubscribers |-> Granular({"subscribers"})]

\* What a reconnected socket refreshes.
onReconnect == Issues \cup {"inbox", "agents", "members", "skills", "runtimes", "workspaces"}
                 \cup Projects \cup Autopilots

\* What an event does to query k.
Effect(event, k) ==
    IF event \in DOMAIN specificEvents
    THEN LET s == specificEvents[event]
         IN  IF k \in s.patch THEN "patch"
             ELSE IF k \in s.row THEN "row"
             ELSE IF k \in s.invalidate THEN "invalidate"
             ELSE IF k \in s.remove THEN "remove"
             ELSE IF k \in s.both THEN "both" ELSE "none"
    ELSE IF event \in DOMAIN refreshMap /\ k \in refreshMap[event] THEN "debounce" ELSE "none"

\* What is left of hook h when only query k is looked at.
On(h, k) ==
    [writes |-> k \in h.writes, cancel |-> k \in h.cancel, patch |-> k \in h.patch,
     begin |-> k \in h.begin, drop |-> k \in h.drop, seed |-> k \in h.seed, start |-> k \in h.start,
     settle |-> k \in h.settle, unheard |-> k \in h.unheard, lost |-> k \in h.lost,
     labels |-> k \in h.labels,
     effect |-> IF k \in h.unheard THEN "none" ELSE Effect(h.event, k)]

\* The calls this client can make that concern query k, and those of others.
Calls == [k \in Keys |-> {On(h, k) : h \in {g \in Hooks : k \in g.writes \cup g.drop}}]

OthersCalls ==
    [k \in Keys |-> {On(h, k) : h \in {g \in Hooks \cup Elsewhere : k \in g.writes}}]

\* What a hook cancels, or shows before it is confirmed, its onSettled
\* invalidates; and it shows, and has events add, only what it writes.
ASSUME HooksSettle ==
    \A k \in Keys : \A c \in Calls[k] :
        /\ c.cancel \/ c.patch \/ c.begin \/ c.seed \/ c.start => c.settle
        /\ c.seed \/ c.start \/ c.effect \in {"patch", "row", "both"} => c.writes

\* Whoever writes, the clients are told: by an event that reaches the query, by
\* the caller's own onSettled, or not at all, and then it is declared above.
ASSUME HooksHeard ==
    \A k \in Keys :
        /\ \A c \in Calls[k] : c.writes => c.settle \/ c.lost \/ c.effect # "none"
        /\ \A c \in OthersCalls[k] : c.unheard \/ c.effect # "none"

-----------------------------------------------------------------------------
(* State *)

VARIABLES key,       \* the query followed
          entry,     \* what is cached for it, and whether it is marked invalid
          active,    \* a view is mounted on it
          fetch,     \* its request: none, asked, answered (with what was read) or
                     \* failed; and the entry as it was when the request began
          link,      \* the workspace's socket: "up", "down", or "away" while the
                     \* user is in another workspace
          before,    \* hasConnectedBefore of the present socket client
          events,    \* published, not yet handled: the effect on key, the write,
                     \* and what a whole row shows
          timer,     \* writes waiting for the debounced refresh (none: not armed)
          server,    \* writes committed
          row,       \* writes, begun by anyone, to one row that events carry whole,
          bare,      \* but for its labels: the writes among them that change these
          unsent,    \* events of committed writes that are not yet published
          mine,      \* this client's calls that are out
          used,      \* how many writes were begun, by anyone
          told,      \* history: writes the client has heard of
          gaps,      \* history: why the query may be stale without being marked:
                     \*   missed     an event came while the socket was not up
                     \*   lost       a write was not published, or was erased by an
                     \*              older answer or an event with an older row
                     \*   unmarked   a patch took the mark off a query
                     \*   seeded     a list that is itself stale filled the query
          faults     \* counter of the bound

vars == <<key, entry, active, fetch, link, before, events, timer, server, row, bare, unsent,
          mine, used, told, gaps, faults>>

socket == <<link, before, events, timer>>
ours == <<server, row, bare, unsent, mine, used>>

Nothing == [data |-> Absent, invalid |-> FALSE]
Idle == [at |-> "none", answer |-> {}, back |-> Nothing]
NoCall == [phase |-> "idle", snapshot |-> Absent, seed |-> FALSE, start |-> FALSE,
           settle |-> FALSE, lost |-> FALSE, writes |-> FALSE, effect |-> "none"]

Cached(e) == e.data # Absent
InMutation(w) == mine[w].phase # "idle"
Busy(f) == f.at \in {"asked", "answered"}

Init ==
    /\ key \in Keys
    /\ entry = Nothing /\ fetch = Idle /\ active = FALSE
    /\ link = "down" /\ before = FALSE /\ events = <<>> /\ timer = {}
    /\ server = {} /\ row = {} /\ bare = {} /\ unsent = {} /\ mine = [w \in W |-> NoCall] /\ used = 0
    /\ told = {} /\ gaps = {} /\ faults = 0

-----------------------------------------------------------------------------
(* The query library, as packages/core uses it *)

\* A request begun over entry e.
Asked(e) == [at |-> "asked", answer |-> {}, back |-> e]

\* setQueryData: the data is new, and so the mark is gone.
Set(d) == [data |-> d, invalid |-> FALSE]

\* setQueryData with an updater that returns what it was given when nothing is cached.
Patched(e, w) == IF Cached(e) THEN Set(e.data \cup {w}) ELSE e

Marked(e) == IF Cached(e) THEN [e EXCEPT !.invalid = TRUE] ELSE e

\* Mutant of Invalidate: only an unmarked query is refetched.
InvalidateOnce(e, f) ==
    /\ entry' = Marked(e)
    /\ fetch' = IF active /\ Cached(e) /\ ~e.invalid THEN Asked(Marked(e)) ELSE f

\* invalidateQueries: mark, and refetch what is mounted.  A request under way
\* is started over only if there is data: a first load is joined.
Refetched(e, f) == IF active /\ (Cached(e) \/ ~Busy(f)) THEN Asked(Marked(e)) ELSE f

Invalidate(e, f) == entry' = Marked(e) /\ fetch' = Refetched(e, f)

\* Mutant of Cancelled: what is put back is marked, cached or not.
CancelledMarked(e, f) == IF Busy(f) THEN [f.back EXCEPT !.invalid = TRUE] ELSE e

\* cancelQueries: the entry is again what it was when the request began.
Cancelled(e, f) == IF Busy(f) THEN f.back ELSE e

\* A view mounts: what is absent or marked is fetched (staleTime: Infinity).
Mount ==
    /\ ~active \/ (~Cached(entry) /\ ~Busy(fetch))
    /\ link # "away" \/ key = "workspaces"
    /\ active' = TRUE
    /\ fetch' = IF ~Busy(fetch) /\ (~Cached(entry) \/ entry.invalid) THEN Asked(entry) ELSE fetch
    /\ UNCHANGED <<key, entry, socket, ours, told, gaps, faults>>

\* The queries of one issue are seeded from the lists (initialData).
Seeded == {"issue"}

\* A view of an issue that is not cached mounts, or renders again, and takes it
\* from a list: with what this client's hooks have patched into the list, and
\* without what the list lacks.  It is fresh for the library: nothing is fetched.
\* What the client has heard of may be missing; what only the list's own
\* rollback will take back may be shown.
MountSeeded ==
    /\ key \in Seeded /\ ~Cached(entry) /\ link # "away"
    /\ active' = TRUE
    /\ \E d \in SUBSET (1 .. used) :
          /\ entry' = Set(d)
          /\ gaps' = IF told \subseteq d /\ \A v \in d \ server : InMutation(v) /\ mine[v].settle
                     THEN gaps ELSE gaps \cup {"seeded"}
    /\ UNCHANGED <<key, fetch, socket, ours, told, faults>>

\* A view unmounts; its request goes on.
Unmount ==
    /\ active /\ active' = FALSE
    /\ UNCHANGED <<key, entry, fetch, socket, ours, told, gaps, faults>>

\* gcTime passes over a query nobody looks at.
Collect ==
    /\ ~active /\ ~Busy(fetch) /\ Cached(entry)
    /\ entry' = Nothing /\ fetch' = Idle
    /\ UNCHANGED <<key, active, socket, ours, told, gaps, faults>>

\* The server reads its rows for the request.
Read ==
    /\ fetch.at = "asked"
    /\ fetch' = [fetch EXCEPT !.at = "answered", !.answer = server]
    /\ UNCHANGED <<key, entry, active, socket, ours, told, gaps, faults>>

\* The answer is cached.  One that was read before a write the client has heard
\* of since erases the trace of it.
Deliver ==
    /\ fetch.at = "answered"
    /\ entry' = Set(fetch.answer) /\ fetch' = Idle
    /\ gaps' = IF fetch.answer = server THEN {}
               ELSE IF told \subseteq fetch.answer THEN gaps ELSE gaps \cup {"lost"}
    /\ told' = told \cup fetch.answer
    /\ UNCHANGED <<key, active, socket, ours, faults>>

\* The request and its one retry fail: data that is there is marked.
FetchFails ==
    /\ Busy(fetch) /\ faults < MaxFaults
    /\ faults' = faults + 1
    /\ entry' = Marked(entry) /\ fetch' = [Idle EXCEPT !.at = "failed"]
    /\ UNCHANGED <<key, active, socket, ours, told, gaps>>

-----------------------------------------------------------------------------
(* Writes *)

NextWrite == used + 1

\* The writes to what w wrote, where those to the followed row are r.
RowOf(w, r) == IF w \in r THEN r ELSE {w}

\* An issue's detail is one row; of a list, a write is to the followed row or not.
BeginWrite(c) ==
    /\ used < MaxWrites /\ used' = NextWrite
    /\ \E same \in IF key = "issue" THEN {c.writes} ELSE {FALSE, c.writes} :
          row' = IF same /\ key \in onIssueUpdated.row THEN row \cup {NextWrite} ELSE row
    /\ bare' = IF c.labels THEN bare \cup {NextWrite} ELSE bare

\* The event of write w, with what its row holds once w is committed.
EventOf(effect, w) ==
    [effect |-> effect, write |-> w,
     shows |-> IF effect = "row" THEN {w} \cup ((RowOf(w, row') \cap server') \ bare') ELSE {}]

\* Write w has been committed: its event is to be published, if it has any.
Committed(effect, unheard, w) ==
    /\ gaps' = IF unheard THEN gaps \cup {"lost"} ELSE gaps
    /\ unsent' = IF unheard \/ effect = "none" THEN unsent ELSE unsent \cup {EventOf(effect, w)}

\* A handler publishes after its statements, to the sockets that are up: the
\* events of two requests may be published in either order.  A socket that is not
\* up misses it.
Publish ==
    \E a \in unsent :
        /\ unsent' = unsent \ {a}
        /\ events' = IF link = "up" THEN Append(events, a) ELSE events
        /\ gaps' = IF link = "up" THEN gaps ELSE gaps \cup {"missed"}
        /\ UNCHANGED <<key, entry, active, fetch, link, before, timer, server, row, bare, mine, used,
                       told, faults>>

\* Somebody else, or another tab, writes.
OthersWrite(c) ==
    /\ BeginWrite(c)
    /\ server' = server \cup {NextWrite}
    /\ Committed(c.effect, c.unheard, NextWrite)
    /\ UNCHANGED <<key, entry, active, fetch, socket, mine, told, faults>>

\* onMutate: cancel, remember, patch.  It awaits nothing but the cancellation.
\* A view of a removed query keeps its last result and looks at the cache no more.
Mutate(c) ==
    LET e == IF c.cancel THEN Cancelled(entry, fetch) ELSE entry
        patched == c.patch /\ Cached(e)
        begun == c.begin /\ ~Cached(e)
    IN  /\ BeginWrite(c)
        /\ mine' = [mine EXCEPT ![NextWrite] =
               [phase |-> "sent", snapshot |-> IF patched THEN e.data ELSE Absent,
                seed |-> c.seed, start |-> c.start, settle |-> c.settle, lost |-> c.lost,
                writes |-> c.writes, effect |-> c.effect]]
        /\ entry' = IF c.drop THEN Nothing ELSE IF begun THEN Set({NextWrite})
                     ELSE IF patched THEN Patched(e, NextWrite) ELSE e
        /\ fetch' = IF c.drop \/ c.cancel THEN Idle ELSE fetch
        /\ active' = (active /\ ~c.drop)
        /\ UNCHANGED <<key, socket, server, unsent, told, gaps, faults>>

\* The server commits one of our calls.
Commit(w) ==
    /\ mine[w].phase = "sent"
    /\ mine' = [mine EXCEPT ![w].phase = "done"]
    /\ server' = IF mine[w].writes THEN server \cup {w} ELSE server
    /\ UNCHANGED <<key, entry, active, fetch, socket, row, bare, used, told, faults>>
    /\ Committed(mine[w].effect, mine[w].lost, w)

\* onSettled, after the entry became e.
Settle(w, e) ==
    /\ IF mine[w].settle THEN Invalidate(e, fetch) /\ told' = told \cup ({w} \cap server)
                         ELSE entry' = e /\ UNCHANGED <<fetch, told>>
    /\ mine' = [mine EXCEPT ![w] = NoCall]

\* onSuccess, then onSettled.  The handler has published when it answers.
Succeed(w) ==
    LET e == IF mine[w].seed /\ Cached(entry) THEN Set(entry.data \cup {w})
             ELSE IF mine[w].start /\ ~Cached(entry) THEN Set({w}) ELSE entry
    IN  /\ mine[w].phase = "done" /\ \A a \in unsent : a.write # w
        /\ Settle(w, e)
        /\ UNCHANGED <<key, active, socket, server, row, bare, unsent, used, gaps, faults>>

\* Mutant of Fail: onSettled's invalidation comes before onError's rollback.
FailSettledFirst(w) ==
    /\ mine[w].phase \in {"sent", "done"} /\ faults < MaxFaults
    /\ faults' = faults + 1
    /\ entry' = IF mine[w].snapshot = Absent THEN Marked(entry) ELSE Set(mine[w].snapshot)
    /\ mine' = [mine EXCEPT ![w] = NoCall]
    /\ UNCHANGED <<key, active, fetch, socket, server, row, bare, unsent, used, told, gaps>>

\* The call is refused, or its answer is lost: onError puts the snapshot back,
\* then onSettled.
Fail(w) ==
    /\ mine[w].phase \in {"sent", "done"} /\ faults < MaxFaults
    /\ faults' = faults + 1
    /\ Settle(w, IF mine[w].snapshot = Absent THEN entry ELSE Set(mine[w].snapshot))
    /\ UNCHANGED <<key, active, socket, server, row, bare, unsent, used, gaps>>

-----------------------------------------------------------------------------
(* Events *)

\* An event of an open issue: the global handler invalidates and the view's
\* patches, in the order in which they subscribed.
PatchedToo(w) ==
    \/ Invalidate(IF active THEN Patched(entry, w) ELSE entry, fetch)
    \/ /\ fetch' = Refetched(entry, fetch)
       /\ entry' = IF active THEN Patched(Marked(entry), w) ELSE Marked(entry)

\* A row is put in as its event has it, for the writes that the event covers.
Replaced(e, covers, shows) == IF Cached(e) THEN Set((e.data \ covers) \cup shows) ELSE e

\* An event covers all that was written to the row.  A handler's has no labels in
\* it, and so erases them; one of the task service does not touch them.
Covers(w) == {RowOf(w, row), RowOf(w, row) \ bare}

\* The writes whose events are still to be handled after the oldest.
Awaited == {a.write : a \in unsent} \cup {Tail(events)[i].write : i \in 1 .. Len(Tail(events))}

\* The oldest event is handled.  A patch of a marked entry erases the mark; a row
\* erases what the client had of later writes to it, and for good the ones whose
\* own events came first.
HandleEvent ==
    LET effect == Head(events).effect
        w == Head(events).write
        shows == Head(events).shows
    IN  /\ events # <<>> /\ events' = Tail(events)
        /\ timer' = IF effect = "debounce" THEN timer \cup {w} ELSE timer
        /\ told' = IF effect = "debounce" THEN told ELSE told \cup ({w} \cap server)
        /\ \E covers \in Covers(w) :
              LET unmarks == effect \in {"patch", "row"} /\ entry.invalid /\ ~Busy(fetch)
                  reverts == effect = "row" /\ ~ (told \cap covers \subseteq shows \cup Awaited)
              IN  /\ gaps' = gaps \cup (IF unmarks THEN {"unmarked"} ELSE {})
                                 \cup (IF reverts /\ Cached(entry) THEN {"lost"} ELSE {})
                  /\ CASE effect = "patch" -> entry' = Patched(entry, w) /\ UNCHANGED fetch
                       [] effect = "row" -> entry' = Replaced(entry, covers, shows) /\ UNCHANGED fetch
                       [] effect = "invalidate" -> Invalidate(entry, fetch)
                       [] effect = "both" -> PatchedToo(w)
                       [] effect = "remove" -> entry' = Nothing /\ fetch' = Idle
                       [] effect = "debounce" -> UNCHANGED <<entry, fetch>>
        /\ active' = (active /\ effect # "remove")
        /\ UNCHANGED <<key, link, before, ours, faults>>

\* Mutant of TimerFires: queries that nobody looks at are left alone.
TimerFiresMounted ==
    /\ timer # {} /\ timer' = {}
    /\ told' = told \cup (timer \cap server)
    /\ IF active THEN Invalidate(entry, fetch) ELSE UNCHANGED <<entry, fetch>>
    /\ UNCHANGED <<key, active, link, before, events, ours, gaps, faults>>

\* 100 ms after the last event of its prefix.
TimerFires ==
    /\ timer # {} /\ timer' = {}
    /\ told' = told \cup (timer \cap server)
    /\ Invalidate(entry, fetch)
    /\ UNCHANGED <<key, active, link, before, events, ours, gaps, faults>>

\* onAuthenticated: the reconnect callbacks run if this client was connected
\* before; an open issue's views have their own (useWSReconnect).
Connect ==
    /\ link = "down" /\ link' = "up" /\ before' = TRUE
    /\ IF before /\ (key \in onReconnect \/ (active /\ key \in Details))
       THEN /\ Invalidate(entry, fetch)
            /\ told' = told \cup server /\ gaps' = gaps \ {"missed"}
       ELSE UNCHANGED <<entry, fetch, told, gaps>>
    /\ UNCHANGED <<key, active, events, timer, ours, faults>>

\* What was under way on the socket is lost.
Drop ==
    /\ link = "up" /\ faults < MaxFaults /\ faults' = faults + 1
    /\ link' = "down" /\ events' = <<>>
    /\ gaps' = IF events # <<>> THEN gaps \cup {"missed"} ELSE gaps
    /\ UNCHANGED <<key, entry, active, fetch, before, timer, ours, told>>

\* The user moves to another workspace: its views unmount, the socket client is
\* closed, and the pending refreshes are cleared.
SwitchAway ==
    /\ link # "away" /\ faults < MaxFaults /\ faults' = faults + 1
    /\ link' = "away" /\ before' = FALSE /\ events' = <<>> /\ timer' = {}
    /\ active' = (active /\ key = "workspaces")
    /\ gaps' = IF events # <<>> \/ timer # {} THEN gaps \cup {"missed"} ELSE gaps
    /\ UNCHANGED <<key, entry, fetch, ours, told>>

\* And back: a new socket client, not yet connected.
SwitchBack ==
    /\ link = "away" /\ link' = "down"
    /\ UNCHANGED <<key, entry, active, fetch, before, events, timer, ours, told, gaps, faults>>

-----------------------------------------------------------------------------

Next ==
    \/ Mount \/ MountSeeded \/ Unmount \/ Collect \/ Read \/ Deliver \/ FetchFails
    \/ \E c \in OthersCalls[key] : OthersWrite(c)
    \/ \E c \in Calls[key] : Mutate(c)
    \/ \E w \in W : Commit(w) \/ Succeed(w) \/ Fail(w)
    \/ Publish \/ HandleEvent \/ TimerFires \/ Connect \/ Drop \/ SwitchAway \/ SwitchBack

Spec == Init /\ [][Next]_vars

-----------------------------------------------------------------------------

\* The state keeps its shape; what is not cached has no mark, and a snapshot is
\* kept only while its call is out.
TypeOK ==
    /\ key \in Keys /\ active \in BOOLEAN /\ before \in BOOLEAN
    /\ Cached(entry) => entry.data \subseteq W
    /\ ~Cached(entry) => ~entry.invalid
    /\ fetch.at \in {"none", "asked", "answered", "failed"} /\ fetch.answer \subseteq server
    /\ link \in {"up", "down", "away"} /\ (link # "up" => events = <<>>)
    /\ row \cup bare \subseteq 1 .. used /\ \A a \in unsent : a.write \in 1 .. used
    /\ timer \subseteq 1 .. used /\ told \subseteq server /\ server \subseteq 1 .. used
    /\ \A w \in W : mine[w].phase = "idle" => mine[w].snapshot = Absent
    /\ gaps \subseteq {"lost", "missed", "unmarked", "seeded"}

Mutating == \E w \in W : InMutation(w)

Quiet == link = "up" /\ events = <<>> /\ unsent = {} /\ timer = {} /\ ~Mutating /\ ~Busy(fetch)

Fresh == Cached(entry) /\ ~entry.invalid => entry.data = server

\* When nothing is under way, an unmarked entry shows exactly what the server
\* holds, whoever wrote it and whatever failed on the way, unless one of the
\* named gaps was met (staleTime is Infinity: nothing else refreshes it).
FreshWhenQuiet == Quiet /\ gaps = {} => Fresh

\* What a refused or superseded patch left behind is never shown unmarked once
\* this client's calls and requests have returned: the snapshots of two calls may put each
\* other's patch back, and only the invalidation that follows removes it.
NoPhantom ==
    ~Mutating /\ ~Busy(fetch) /\ gaps \cap {"unmarked", "seeded"} = {}
        /\ Cached(entry) /\ ~entry.invalid
        => entry.data \subseteq server

\* No view is left waiting: one that is mounted without data that is unmarked
\* has a request under way, or this client has a call out whose onSettled will
\* begin one, unless its last request failed.  A cancelled first load is lost
\* for good if nothing does.
NeverWaits ==
    active /\ (~Cached(entry) \/ entry.invalid) /\ fetch.at # "failed"
        => Busy(fetch) \/ \E w \in W : InMutation(w) /\ mine[w].settle
=============================================================================
