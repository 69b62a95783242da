---------------------------- MODULE MCQueryCache ----------------------------
EXTENDS QueryCache

IssueHooks == {useCreateIssue, useUpdateIssue, useDeleteIssue, useBatchUpdateIssues,
    useBatchDeleteIssues, useCreateComment, useUpdateComment, useDeleteComment,
    useToggleCommentReaction, useToggleIssueReaction, useToggleIssueSubscriber(TRUE),
    useToggleIssueSubscriber(FALSE)}
PlanHooks == {useCreateCycle, useUpdateCycle, useDeleteCycle, useStartCycle, useCompleteCycle,
    useCreateMilestone, useUpdateMilestone, useDeleteMilestone, useReorderMilestones,
    useCreateProject, useUpdateProject, useReorderProjects, useDeleteProject,
    useArchiveProject, useUnarchiveProject}
LabelHooks == {useCreateLabel, useUpdateLabel, useDeleteLabel, useSetIssueLabels}
TeamHooks == {useCreateTeam, useUpdateTeam, useDeleteTeam, useAddTeamMember,
    useRemoveTeamMember, useCreateWorkspace, useLeaveWorkspace, useDeleteWorkspace}
AgentHooks == {useCreateAutopilot, useUpdateAutopilot, useDeleteAutopilot, useTriggerAutopilot,
    useCreateAutopilotTrigger, useUpdateAutopilotTrigger, useDeleteAutopilotTrigger,
    useCreateChatSession, useMarkChatSessionRead, useArchiveChatSession, useDeleteRuntime}
InboxHooks == {useMarkInboxRead, useArchiveInbox, useMarkAllInboxRead, useArchiveAllInbox,
    useArchiveAllReadInbox, useArchiveCompletedInbox, useCreatePin, useDeletePin}
TicketHooks == {useCreateTicket, useUpdateTicket, useDeleteTicket, useCreateTicketReply,
    useCreateTicketNote, useCreateClient, useUpdateClient, useDeleteClient,
    useCreateSLAPolicy, useUpdateSLAPolicy, useDeleteSLAPolicy, useLinkIssueToTicket,
    useCreateIssueFromTicket, useCreatePortalTicket, useCreatePortalReply,
    useResolvePortalTicket, useReopenPortalTicket, useInviteTeammate}

\* All but useReorderPins, whose missing onSettled the README describes.
MCHooks == IssueHooks \cup PlanHooks \cup LabelHooks \cup TeamHooks \cup AgentHooks
             \cup InboxHooks \cup TicketHooks

AllKeys == UNION {h.writes \cup h.patch \cup h.drop : h \in MCHooks \cup Elsewhere}
=============================================================================
