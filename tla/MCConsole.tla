----------------------------- MODULE MCConsole -----------------------------
(***************************************************************************)
(* Instances of Console for TLC: all pages, and the ones that poll.        *)
(***************************************************************************)
EXTENDS Console, ConsolePages, SystemPages, DevicePages
LOCAL INSTANCE TLC

\* Handlers of a page that share neither a flag nor a resource with the rest.
Part(page_, hs) == [h \in hs |-> [page_[h] EXCEPT !.then = @ \cap hs]]

Console_Pages ==
  [CredentialVaultPage |-> CredentialVaultPage,
   CredentialAuditView |-> CredentialAuditView,
   CredentialDevices |-> CredentialDevices,
   DeviceAssignmentSection |-> DeviceAssignmentSection,
   DeviceAssignmentPanel |-> DeviceAssignmentPanel,
   CredentialHistoryModal |-> CredentialHistoryModal,
   DeviceAssociations |-> DeviceAssociations,
   EnterpriseAuthConfigsList |-> EnterpriseAuthConfigsList,
   PollingPage |-> PollingPage,
   Scheduler |-> Scheduler,
   ActiveJobs |-> ActiveJobs,
   JobHistory |-> JobHistory,
   WorkflowsList |-> WorkflowsList,
   WorkflowBuilderPage |-> WorkflowBuilderPage,
   GroupsPage |-> GroupsPage,
   useDevices |-> useDevices,
   useScanProgress |-> useScanProgress,
   ProfilePage |-> ProfilePage,
   Setup2FA |-> Setup2FA,
   LoginPage |-> LoginPage,
   NotificationsPage |-> NotificationsPage,
   UsersPage |-> UsersPage,
   RolesPage |-> RolesPage,
   CredentialsPage |-> CredentialsPage,
   SystemOverviewPage |-> SystemOverviewPage,
   AlertsPage |-> AlertsPage,
   LogsPage |-> LogsPage,
   GeneralSettings |-> GeneralSettings,
   PasswordPolicySettings |-> PasswordPolicySettings,
   NetBoxSettings |-> NetBoxSettings,
   LoggingSettings |-> LoggingSettings,
   PRTGSettings |-> PRTGSettings,
   MCPSettings |-> MCPSettings,
   DatabaseSettings |-> DatabaseSettings,
   Settings |-> Settings,
   PRTGNetBoxImportPage |-> PRTGNetBoxImportPage,
   DeviceImporterPage |-> DeviceImporterPage,
   SNMPAlarmsPage |-> SNMPAlarmsPage,
   SNMPLivePage |-> SNMPLivePage,
   UPSMonitorPage |-> UPSMonitorPage,
   DashboardPage |-> DashboardPage,
   MibMappingsPage |-> MibMappingsPage,
   InterfaceMetricsPanel |-> InterfaceMetricsPanel,
   DeviceDetail |-> Part(DeviceDetail, {"loadDevice", "handleRefresh",
                      "loadInterfaces", "loadOpticalMetrics"}),
   DeviceDetail_rest |-> Part(DeviceDetail, {"loadDevice", "handleRefresh",
                      "loadAlarms", "loadAvailabilityMetrics"}),
   PowerTrends |-> PowerTrends,
   Topology |-> Topology,
   useApi |-> useApi,
   useApiList |-> useApiList,
   useMutation |-> useMutation,
   usePolling |-> usePolling,
   usePollingList |-> usePollingList,
   useOpticalMetrics |-> useOpticalMetrics,
   useInterfaceMetrics |-> useInterfaceMetrics,
   useAvailabilityMetrics |-> useAvailabilityMetrics,
   useDeviceMetricsSummary |-> useDeviceMetricsSummary,
   useSiteMetricsSummary |-> useSiteMetricsSummary,
   useDeviceHealth |-> useDeviceHealth,
   useSiteHealth |-> useSiteHealth,
   useNetBoxTags |-> useNetBoxTags,
   useNetBoxIPRanges |-> useNetBoxIPRanges,
   useNetBoxPrefixes |-> useNetBoxPrefixes,
   useCalculateHealth |-> useCalculateHealth,
   useNetworkHealth |-> useNetworkHealth,
   useNetBoxStatus |-> useNetBoxStatus,
   useNetBoxDevices |-> useNetBoxDevices,
   useNetBoxDevice |-> useNetBoxDevice,
   useNetBoxLookups |-> useNetBoxLookups,
   usePrerequisiteCheck |-> usePrerequisiteCheck,
   useCredentialValidation |-> useCredentialValidation,
   NetBoxSelector |-> NetBoxSelector,
   NetBoxDeviceTypeSelector |-> NetBoxDeviceTypeSelector,
   NetBoxTagsSelector |-> NetBoxTagsSelector,
   NetBoxDeviceSelector |-> NetBoxDeviceSelector]
\* TLC evaluates a definition once only when a CONSTANT stands for another
\* one that stands for it.
AllPages == Console_Pages

\* The pages that poll, and of the rest those that lock themselves in the ways
\* there are: a handler awaited by another, a spinner, a form, no finally.
Polling_Pages ==
  [p \in {"ActiveJobs", "useScanProgress", "SystemOverviewPage", "LogsPage",
          "SNMPLivePage", "UPSMonitorPage", "usePolling", "usePollingList",
          "SNMPAlarmsPage", "Scheduler", "DeviceImporterPage",
          "WorkflowBuilderPage", "GeneralSettings"} |-> Console_Pages[p]]
PollingPages == Polling_Pages
=============================================================================
