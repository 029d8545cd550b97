---------------------------- MODULE ConsolePages ----------------------------
(***************************************************************************)
(* The pages of the console: credentials, polling, jobs, groups, accounts  *)
(* and notifications.  A component that awaits requests of its own is a page*)
(* of its own here, with the loads of its parent that it calls back.       *)
(***************************************************************************)
EXTENDS PageParts
LOCAL INSTANCE TLC

-----------------------------------------------------------------------------
\* pages/credentials: the credential vault.
\* loadData with what it loads in a view, after the statistics; it runs again
\* when a filter or the view changes.
VaultData(load) ==
  "loadData" :> OnMount(OnSelect(Busy("loading",
                  Seq2(Load({"statistics"}), load))))

VaultDelete ==
  "handleDelete" :> Then({"loadData"}, Save({"credentials", "statistics"}))

CredentialModal ==
  "handleSubmit" :> ModalForm(Busy("saving", Disabled({"saving"},
    Then({"loadData"}, Save({"credentials", "statistics"})))))

CredentialVaultPage ==
  VaultData(Load({"credentials"})) @@ VaultDelete @@ CredentialModal

CredentialAuditView == VaultData(Load({"auditLog"}))

openDeviceModal ==
  "openDeviceModal" :> Internal(OnSelect(Blanks(Load({"devices"}))))

loadDevices ==
  "loadDevices" :> Internal(OnSelect(Busy("loadingDevices",
                     Load({"netbox", "tags"}))))

handleDeviceSave == Deselects(Then({"loadData"}, Batch(Save({"devices"}))))

DeviceSelectionModal(onSave) ==
  "handleSave" :> OfSelected(Busy("saving", Disabled({"saving"}, onSave)))

CredentialDevices ==
  "loadData" :> OnMount(Load({"credentials"}))
  @@ openDeviceModal @@ loadDevices @@ DeviceSelectionModal(handleDeviceSave)

assignedDevices ==
  "fetchData" :> Internal(OnMount(Busy("loading",
    Seq2(Load({"assigned"}), Load({"available"})))))

handleAddSelected ==
  Busy("processing", Disabled({"loading", "processing"},
    Locally({"assigned"}, Batch(Save({"assigned"})))))

handleRemoveSelected ==
  Busy("processing", Disabled({"loading", "processing"},
    Locally({"assigned"}, Batch(Save({"assigned"})))))

DeviceAssignmentSection ==
  assignedDevices @@ "handleAddSelected" :> handleAddSelected
  @@ "handleRemoveSelected" :> handleRemoveSelected

panelDevices ==
  "loadDevices" :> Internal(OnSelect(Busy("loading",
                     Load({"devices", "netbox"}))))

DeviceAssignmentPanel ==
  panelDevices
  @@ "saveChanges" :> OfSelected(Busy("saving", Disabled({"loading", "saving"},
       Locally({"devices"}, Batch(Save({"devices"}))))))

CredentialHistoryModal ==
  "loadHistory" :> Internal(OnMount(Busy("loading",
                     Checked(Load({"history"})))))

DeviceAssociations ==
  "fetchDevices" :> Internal(OnMount(Busy("loading", Load({"devices"}))))

loadUsers == "loadUsers" :> Internal(OnMount(Checked(Load({"users"}))))

handleOpenEditServer == Load({"server"})

\* A new server is a credential and a configuration that refers to it.
createServer ==
  Form(Busy("saving", Disabled({"saving"}, Then({"onRefresh"},
    Seq2(Checked(Save({"credentials"})), Save({"configs"}))))))

handleCreateAccount ==
  Form(Busy("saving", Disabled({"saving"}, Then({"loadUsers"},
    Save({"users"})))))

handleDeleteServer ==
  Then({"onRefresh", "loadUsers"}, Save({"configs", "users"}))

handleDeleteAccount == Then({"loadUsers"}, Save({"users"}))

EnterpriseAuthConfigsList ==
  "onRefresh" :> OnMount(Internal(Load({"configs", "credentials"})))
  @@ loadUsers @@ "handleOpenEditServer" :> handleOpenEditServer
  @@ "handleSaveServer" :> createServer
  @@ "handleCreateAccount" :> handleCreateAccount
  @@ "handleDeleteServer" :> handleDeleteServer
  @@ "handleDeleteAccount" :> handleDeleteAccount

-----------------------------------------------------------------------------
\* pages/monitor/PollingPage.jsx: the polling configurations.  The details and
\* the edit form show the configuration as it was when it was selected.
PollingData ==
  "loadData" :> OnMount(Disabled({"loading"}, Busy("loading",
    CopyOf("selectedConfig", "configs",
      Load({"configs", "status", "executions", "types"})))))

\* Of the selected configuration, or of another one.
PollingActions ==
  "handleToggle" :> Then({"loadData"}, Forgets({"selectedConfig"},
                      Save({"configs", "status", "selectedConfig"})))
  @@ "handleRunNow" :> Then({"loadData"}, Forgets({"selectedConfig"},
                         Save({"configs", "executions", "selectedConfig"})))
  @@ "handleDelete" :> Then({"loadData"}, Save({"configs", "status"}))
  @@ "handleDelete_selected" :> OfSelected(Deselects(Then({"loadData"},
       Save({"configs", "status", "selectedConfig"}))))

CreateConfigModal ==
  "create" :> ModalForm(Busy("creating", Disabled({"creating"},
    Then({"loadData"}, Save({"configs", "status"})))))

EditConfigModal ==
  "edit" :> OfSelected(Deselects(ModalForm(Busy("updating",
    Disabled({"updating"}, Then({"loadData"},
      Save({"configs", "status", "selectedConfig"})))))))

PollingPage ==
  PollingData @@ PollingActions @@ CreateConfigModal @@ EditConfigModal

-----------------------------------------------------------------------------
\* pages/Scheduler.jsx, pages/ActiveJobs.jsx, pages/JobHistory.jsx: the jobs.
\* The open detail shows the job as it was when it was selected.
SchedulerData ==
  "loadJobs" :> Internal(OnMount(Busy("loading",
                  CopyOf("selectedJob", "jobs", Load({"jobs"})))))
  @@ "loadExecutions" :> Internal(OnSelect(Busy("loadingExecutions",
                           Load({"executions"}))))

clearExecutions ==
  OfSelected(ThenAwait({"loadExecutions"}, Save({"executions"})))

SchedulerActions ==
  "handleDeleteJob" :> OfSelected(Deselects(ThenAwait({"loadJobs"},
                         Save({"jobs", "selectedJob"}))))
  @@ "handleToggleEnabled" :> ThenAwait({"loadJobs"},
       Forgets({"selectedJob"}, Save({"jobs", "selectedJob"})))

\* Six seconds later the executions are loaded once more, for the job that was
\* selected then.
handleRunOnce ==
  "handleRunOnce" :> OfSelected(ThenAwait({"loadJobs", "loadExecutions",
                       "runOnceRefresh"}, Forgets({"selectedJob"},
                         Save({"jobs", "executions", "selectedJob"}))))
  @@ "runOnceRefresh" :> Internal(Load({"executions"}))

handleRefresh == Disabled({"loading"}, Call({"loadJobs", "loadExecutions"}))

Scheduler ==
  SchedulerData @@ SchedulerActions @@ handleRunOnce
  @@ "clearExecutions" :> clearExecutions @@ "handleRefresh" :> handleRefresh

\* Every 5 seconds: the queues, the upcoming jobs, the running executions and
\* their progress.  The last two have a catch of their own.
ActiveJobsData ==
  "loadData" :> OnMount(Polled(Disabled({"loading"}, Busy("loading",
    Seq2(Seq2(Load({"queues"}), Load({"upcoming"})),
         Seq2(LoadEach({"running"}), LoadEach({"progress"})))))))

ActiveJobs ==
  ActiveJobsData
  @@ "handleCancelJob" :> Then({"loadData"}, Save({"running", "queues"}))
  @@ "handlePauseQueued" :> Then({"loadData"}, Save({"upcoming"}))

HistoryData ==
  "loadExecutions" :> OnMount(Disabled({"loading"}, Busy("loading",
                        CopyOf("selectedExecution", "executions",
                          Load({"executions"})))))

JobHistory ==
  HistoryData
  @@ "loadAuditTrail" :> Internal(OnSelect(Busy("loadingAudit",
                           Blanks(Load({"audit"})))))

-----------------------------------------------------------------------------
\* pages/workflows: the list of the workflows and the page of the builder.
WorkflowsData ==
  "loadData" :> Internal(OnMount(Busy("loading",
                  Load({"workflows", "folders", "tags"}))))

WorkflowActions ==
  "handleRunWorkflow" :> Save({"executions"})
  @@ "handleDuplicateWorkflow" :> Then({"loadData"}, Save({"workflows"}))
  @@ "handleDeleteWorkflow" :> Then({"loadData"}, Save({"workflows", "tags"}))

FolderActions ==
  [h \in {"handleCreateFolder", "handleUpdateFolder", "handleDeleteFolder",
          "handleMoveToFolder"} |->
     Then({"loadData"}, Save({"workflows", "folders"}))]

WorkflowsList ==
  Behind("loading", WorkflowsData @@ WorkflowActions @@ FolderActions)

loadWorkflow ==
  Internal(OnSelect(OnMount(Busy("loading", Load({"workflow"})))))

\* The builder keeps its own copy of the workflow; a new one is navigated to.
builderSave ==
  Busy("saving", Locally({"workflow"}, Save({"workflow"})))

WorkflowBuilderPage ==
  Behind("loading",
    "loadWorkflow" :> loadWorkflow @@ "handleSave" :> builderSave
    @@ "handleRun" :> Busy("running", Save({"executions"}))
    @@ "handleTest" :> Save({"executions"}))

-----------------------------------------------------------------------------
\* pages/inventory/GroupsPage.jsx with hooks/useDevices.js.  The header and the
\* edit form show the group as it was when it was selected.
fetchGroups ==
  Internal(OnMount(Busy("loading", Blanks(
    CopyOf("selectedGroup", "groups", Load({"groups"}))))))

\* createGroup and updateGroup end with fetchGroups, which catches its errors.
writeGroup(rs) == Seq2(Save(rs), LoadEach({"groups"}))

loadGroupDevices == Internal(OnSelect(Blanks(Load({"groupDevices"}))))

GroupActions ==
  "handleCreateGroup" :> ThenAwait({"fetchGroups"}, writeGroup({"groups"}))
  @@ "handleDeleteGroup" :> ThenAwait({"fetchGroups"}, writeGroup({"groups"}))
  @@ "handleDeleteGroup_selected" :> OfSelected(Deselects(
       ThenAwait({"fetchGroups"}, writeGroup({"groups", "selectedGroup"}))))

\* The name, the devices taken out one by one, those put in.
handleSaveGroup ==
  OfSelected(Busy("saving", Disabled({"saving"},
    ThenAwait({"fetchGroups", "loadGroupDevices"},
      Forgets({"selectedGroup"},
        Seq2(writeGroup({"groups", "selectedGroup"}),
             Batch(Save({"groupDevices", "groups"}))))))))

GroupsPage ==
  "fetchGroups" :> fetchGroups @@ "loadGroupDevices" :> loadGroupDevices
  @@ GroupActions @@ "handleSaveGroup" :> handleSaveGroup

useDevices == "fetchDevices" :> OnMount(Busy("loading", Load({"devices"})))

\* It stops after three errors in a row; the next poll shows what a scan has
\* begun.
useScanProgress ==
  "poll" :> Internal(OnMount(Polled(Load({"progress"}))))
  @@ "startScan" :> Forgets({"progress"}, Save({"progress"}))
=============================================================================
