----------------------------- MODULE SystemPages ----------------------------
(***************************************************************************)
(* The pages of the console for accounts, roles, notifications, alerts, logs*)
(* and settings.                                                           *)
(***************************************************************************)
EXTENDS PageParts
LOCAL INSTANCE TLC

-----------------------------------------------------------------------------
\* pages/auth: the profile and the login.
\* loadData takes the page away while it runs.
ProfileData ==
  "loadData" :> Internal(OnMount(Busy("loading",
                  Checked(Load({"profile", "sessions"})))))

saveProfile ==
  Form(Busy("saving", Disabled({"saving"}, Then({"loadData"},
    Save({"profile"})))))

handleChangePassword ==
  Form(Busy("savingPassword", Disabled({"savingPassword"}, Checked(Ask))))

handleDisable ==
  Form(Busy("disabling", Disabled({"disabling"}, Then({"loadData"},
    Checked(Save({"profile"}))))))

handleRevokeAll ==
  Busy("revoking", Disabled({"revoking"}, Then({"loadData"},
    Save({"sessions"}))))

ProfilePage ==
  Behind("loading",
    ProfileData @@ "handleSave" :> saveProfile
    @@ "handleChangePassword" :> handleChangePassword
    @@ "handleDisable" :> handleDisable
    @@ "handleRevokeAll" :> handleRevokeAll)

\* Two requests; the account is read again when the wizard is done.
Setup2FA ==
  "initSetup" :> Internal(OnMount(Busy("loading", Checked(Ask))))
  @@ "handleVerify" :> Busy("loading", Disabled({"loading"}, Checked(Ask)))

LoginPage ==
  "loadEnterpriseConfigs" :> Internal(OnMount(Load({"configs"})))
  @@ "handleCredentialsSubmit" :> Busy("loading", Disabled({"loading"},
                                    Checked(Ask)))
  @@ "handle2FASubmit" :> Busy("loading", Disabled({"loading"}, Checked(Ask)))

-----------------------------------------------------------------------------
\* pages/system/NotificationsPage.jsx with its three modals.
NotificationsData ==
  "loadData" :> Internal(OnMount(Initially("loading",
                  Load({"channels", "rules", "templates"}))))

\* The channels are loaded again whatever the test says.
handleTestChannel ==
  Busy("testingChannel", Then({"loadData"}, Save({"channels"})))

NotificationActions ==
  [h \in {"handleDeleteChannel", "handleToggleChannel"} |->
     Then({"loadData"}, Save({"channels", "rules"}))]
  @@ "handleDeleteRule" :> Then({"loadData"}, Save({"rules"}))
  @@ "handleDeleteTemplate" :> Then({"loadData"}, Save({"templates", "rules"}))

ChannelModal ==
  ModalForm(Busy("savingChannel", Disabled({"savingChannel"},
    Then({"loadData"}, Save({"channels"})))))

RuleModal ==
  ModalForm(Busy("savingRule", Disabled({"savingRule"},
    Then({"loadData"}, Save({"rules"})))))

TemplateModal ==
  ModalForm(Busy("savingTemplate", Disabled({"savingTemplate"},
    Then({"loadData"}, Save({"templates"})))))

NotificationsPage ==
  Behind("loading",
    NotificationsData @@ NotificationActions
    @@ "handleTestChannel" :> handleTestChannel @@ "channel" :> ChannelModal
    @@ "rule" :> RuleModal @@ "template" :> TemplateModal)

-----------------------------------------------------------------------------
\* pages/system/UsersPage.jsx and RolesPage.jsx.
UsersData ==
  "loadData" :> Internal(OnMount(OnSelect(Busy("loading",
                  Load({"users", "roles"})))))

handleCreate ==
  Form(Busy("saving", Disabled({"saving"}, Then({"loadData"},
    Checked(Save({"users"}))))))

\* The roles, then the status.
EditUserModal ==
  ModalForm(Busy("savingUser", Disabled({"savingUser"}, Then({"loadData"},
    Seq2(Save({"users"}), Save({"users"}))))))

UsersPage ==
  UsersData @@ "handleCreate" :> handleCreate @@ "edit" :> EditUserModal

\* The details show the role as it was when it was selected.
RolesData ==
  "loadData" :> Internal(OnMount(Busy("loading",
                  CopyOf("selectedRole", "roles", Load({"roles"})))))

RoleDetails ==
  "loadMembers" :> Internal(OnSelect(Busy("loadingMembers",
                     Blanks(Load({"members"})))))
  @@ "loadPermissions" :> Internal(OnSelect(Busy("loadingPermissions",
                            Blanks(Load({"permissions"})))))

deleteRole ==
  OfSelected(Deselects(Then({"loadData"},
    Checked(Save({"roles", "selectedRole"})))))

AddMemberModal ==
  OfSelected(ModalForm(Busy("adding", Disabled({"adding"},
    Then({"loadMembers", "loadData"}, Checked(Save({"members", "roles"})))))))

handleRemoveMember ==
  OfSelected(Disabled({"loadingMembers"}, Then({"loadMembers", "loadData"},
    Save({"members", "roles"}))))

saveRole(flag, rs) ==
  ModalForm(Busy(flag, Disabled({flag}, Then({"loadData"},
    Checked(Save(rs))))))

\* The page selects the first role itself when it has loaded them.  Nothing
\* loads the permissions of the selected role after they are edited, nor
\* changes the copy of it that is shown.
RolesPage ==
  RolesData @@ RoleDetails @@ "delete" :> deleteRole
  @@ "add" :> AddMemberModal @@ "handleRemoveMember" :> handleRemoveMember
  @@ "create" :> saveRole("creatingRole", {"roles"})
  @@ "edit" :> OfSelected(Forgets({"permissions", "selectedRole"},
       saveRole("editingRole", {"roles", "permissions", "selectedRole"})))

-----------------------------------------------------------------------------
\* pages/system: the old credentials page, the overview, the alerts, the logs.
OldCredentialsData ==
  "loadData" :> Internal(OnMount(Busy("loading",
                  Load({"credentials", "groups"}))))

OldCredentialsActions ==
  "handleDeleteCredential" :> Then({"loadData"},
                                Save({"credentials", "groups"}))
  @@ "handleDeleteGroup" :> Then({"loadData"}, Save({"groups"}))

OldCredentialModal ==
  ModalForm(Busy("saving", Disabled({"saving"}, Then({"loadData"},
    Save({"credentials"})))))

\* The submission of a group that exists sends nothing.
OldGroupModal ==
  ModalForm(Busy("savingGroup", Disabled({"savingGroup"}, Then({"loadData"},
    Save({"groups"})))))

CredentialsPage ==
  OldCredentialsData @@ OldCredentialsActions
  @@ "credential" :> OldCredentialModal @@ "group" :> OldGroupModal

\* Every 30 seconds; each service that does not answer is shown as unknown.
SystemOverviewPage ==
  "loadStatus" :> OnMount(Polled(Disabled({"loading"}, Busy("loading",
    Seq2(LoadEach({"queues"}), LoadEach({"services"}))))))

\* Four requests in one try: after the first that fails none is sent.
AlertsData ==
  "loadData" :> OnMount(Disabled({"loading"}, Busy("loading",
    Seq2(Seq2(Load({"alerts"}), Load({"rules"})),
         Seq2(Load({"stats"}), Load({"history"}))))))

AlertsPage ==
  AlertsData
  @@ "handleAcknowledge" :> Then({"loadData"}, Save({"alerts", "stats"}))
  @@ "handleResolve" :> Then({"loadData"},
                          Save({"alerts", "stats", "history"}))
  @@ "handleToggleRule" :> Then({"loadData"}, Save({"rules", "alerts"}))

fetchLogs ==
  OnMount(OnSelect(Polled(Disabled({"loading"}, Busy("loading",
    Load({"logs"}))))))

LogsPage ==
  "fetchLogs" :> fetchLogs
  @@ "fetchMetadata" :> Internal(OnMount(Load({"metadata"})))

-----------------------------------------------------------------------------
\* pages/system/settings: each keeps its own copy of what it saves.
GeneralSettings ==
  "loadSettings" :> OnMount(Disabled({"loading"}, Busy("loading",
                      Load({"settings"}))))
  @@ "handleSave" :> Busy("saving", Disabled({"saving"},
                       Locally({"settings"}, Save({"settings"}))))

PasswordPolicySettings ==
  Behind("loading",
    "loadPolicy" :> Internal(OnMount(Busy("loading",
                      Checked(Load({"policy"})))))
    @@ "handleSave" :> Busy("saving", Disabled({"saving"},
         Locally({"policy"}, Checked(Save({"policy"}))))))

NetBoxSettings ==
  Behind("loading",
    "loadSettings" :> Internal(OnMount(Busy("loading",
                        Checked(Load({"settings"})))))
    @@ "handleSave" :> Busy("saving", Disabled({"saving"},
         Locally({"settings"}, Checked(Save({"settings"})))))
    @@ "handleTest" :> Busy("testing", Disabled({"testing"}, Checked(Ask))))

LoggingSettings ==
  Behind("loading",
    "loadData" :> Internal(OnMount(Busy("loading",
                    Checked(Load({"settings"})))))
    @@ "handleSave" :> Busy("saving", Disabled({"saving"},
         Locally({"settings"}, Checked(Save({"settings"})))))
    @@ "handleCleanup" :> Busy("cleaning", Disabled({"cleaning"},
                            Checked(Ask))))

PRTGData ==
  "fetchSettings" :> Internal(OnMount(Initially("loading",
                       Checked(Load({"settings"})))))
  @@ "fetchStatus" :> OnMount(Load({"status"}))

\* The status that is shown after a save is the one of the old settings.
PRTGSettings ==
  Behind("loading",
    PRTGData
    @@ "handleSave" :> Busy("saving", Disabled({"saving"},
         Forgets({"status"}, Locally({"settings"},
           Checked(Save({"settings", "status"}))))))
    @@ "handleTest" :> Busy("testing", Disabled({"testing"}, Checked(Ask)))
    @@ "handlePreviewSync" :> Busy("loadingPreview",
         Disabled({"loadingPreview"}, Checked(Load({"preview"})))))

MCPData ==
  "fetchSettings" :> Internal(OnMount(Initially("loading",
                       Checked(Load({"settings"})))))

MCPSettings ==
  Behind("loading",
    MCPData
    @@ "handleSave" :> Busy("saving", Disabled({"saving"},
         Locally({"settings"}, Checked(Save({"settings"})))))
    @@ "handleTest" :> Busy("testing", Disabled({"testing"}, Checked(Ask)))
    @@ "handleSyncDevices" :> Busy("syncingDevices",
         Disabled({"syncingDevices"}, Checked(Ask)))
    @@ "handleSyncEquipment" :> Busy("syncingEquipment",
         Disabled({"syncingEquipment"}, Checked(Ask))))

DatabaseSettings ==
  "loadSettings" :> Internal(OnMount(Load({"settings"})))
  @@ "testConnection" :> Busy("testing", Disabled({"testing"}, Checked(Ask)))

Settings ==
  Behind("loading",
    "loadSettings" :> Internal(OnMount(Busy("loading", Load({"settings"}))))
    @@ "saveSettings" :> Busy("saving", Disabled({"saving"},
                           Locally({"settings"}, Save({"settings"}))))
    @@ "testSettings" :> Busy("testing", Disabled({"testing"}, Ask)))
=============================================================================
