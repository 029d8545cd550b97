----------------------------- MODULE DevicePages ----------------------------
(***************************************************************************)
(* The pages of the console for devices, their import, their monitoring, and*)
(* the hooks that load for several pages.                                  *)
(***************************************************************************)
EXTENDS PageParts
LOCAL INSTANCE TLC

-----------------------------------------------------------------------------
\* pages/inventory: the imports from PRTG.
ImportData ==
  "loadData" :> Internal(OnMount(Busy("loading",
                  Checked(Load({"options", "groups", "prtgDevices"})))))
  @@ "refreshDevices" :> Disabled({"loading"}, Busy("loading",
                           Checked(Load({"prtgDevices"}))))

refreshNetboxOptions ==
  "refreshNetboxOptions" :> Internal(Checked(Load({"options"})))

MappingPanel ==
  [h \in {"createSite", "createDeviceType", "createDeviceRole"} |->
     Form(Busy("creating", Disabled({"creating"},
       Then({"refreshNetboxOptions"}, Checked(Save({"options"}))))))]

\* Which devices NetBox has already is not loaded again after an import.
runImport ==
  Busy("importing", Disabled({"importing"},
    Forgets({"prtgDevices"}, Save({"prtgDevices"}))))

PRTGNetBoxImportPage ==
  ImportData @@ refreshNetboxOptions @@ MappingPanel
  @@ "runImport" :> runImport

DeviceImporterData ==
  "discoverDevices" :> OnMount(Disabled({"discovering"}, Busy("discovering",
                         Checked(Load({"prtgDevices"})))))
  @@ "previewImport" :> Disabled({"loading"}, Busy("loading",
                          Checked(Load({"preview"}))))

\* The preview is awaited before importing is FALSE.
DeviceImporterPage ==
  DeviceImporterData
  @@ "runImport" :> Busy("importing", Disabled({"importing"},
       ThenAwait({"previewImport"}, Save({"preview"}))))

-----------------------------------------------------------------------------
\* pages/monitor: what is asked of the devices themselves.
loadAlarmDevices == "loadDevices" :> Internal(OnMount(Load({"devices"})))

\* There is no try: the body of a 401 or 403 has no data, and the exception
\* leaves loading TRUE.
SNMPAlarmsPage ==
  loadAlarmDevices
  @@ "pollAllDevices" :> KeepsBusy("loading", Disabled({"loading"},
                           Checked(LoadEach({"alarms"}))))

loadLiveDevices == "loadDevices" :> Internal(OnMount(Load({"devices"})))

\* Every 30 seconds, and when a device is selected.
SNMPLivePage ==
  loadLiveDevices
  @@ "pollDevice" :> OfSelected(OnSelect(Polled(Disabled({"polling"},
                       Busy("polling", Blanks(Load({"snmpData"})))))))

UPSMonitorPage ==
  "pollUPS" :> Polled(Disabled({"polling"}, Busy("polling",
                 Blanks(Checked(Load({"upsData"}))))))

DashboardPage ==
  "loadStats" :> OnMount(Disabled({"loading"}, Busy("loading",
                   Load({"stats"}))))

\* After loadProfiles the page selects the first profile.
MibData ==
  "loadProfiles" :> Internal(OnMount(Busy("loading", Load({"profiles"}))))
  @@ "loadProfile" :> Internal(OnSelect(Busy("loading", Load({"profile"}))))

ImportMibModal ==
  "handleParse" :> Busy("parsing", Disabled({"parsing"}, Checked(Ask)))
  @@ "handleImport" :> ModalForm(Busy("importing", Disabled({"importing"},
       Then({"loadProfiles", "loadProfile"},
         Checked(Save({"profiles", "profile"}))))))

CreatePollTypeModal ==
  OfSelected(ModalForm(Busy("saving", Disabled({"saving"},
    Then({"loadProfile"}, Checked(Save({"profile"})))))))

TestPollModal == "runTest" :> Busy("testing", Disabled({"testing"}, Ask))

MibMappingsPage ==
  MibData @@ ImportMibModal @@ TestPollModal
  @@ "create" :> CreatePollTypeModal

-----------------------------------------------------------------------------
\* pages/DeviceDetail.jsx, PowerTrends.jsx, Topology.jsx.
\* By the chosen range: the traffic and the optical metrics, each in a try.
InterfaceMetricsPanel ==
  "loadMetrics" :> Internal(OnMount(OnSelect(Busy("loading",
    Seq2(LoadEach({"traffic"}), LoadEach({"optical"}))))))

loadDevice ==
  Internal(OnMount(Busy("loading", Then({"loadOpticalMetrics",
    "loadAvailabilityMetrics", "loadInterfaces", "loadAlarms"},
    Load({"device"})))))

DeviceMetrics ==
  "loadOpticalMetrics" :> Internal(Busy("metricsLoading", Load({"optical"})))
  @@ "loadAlarms" :> Internal(Busy("alarmsLoading", Blanks(Load({"alarms"}))))
  @@ "loadAvailabilityMetrics" :> Internal(Load({"availability"}))

loadInterfaces ==
  Internal(Busy("interfacesLoading", Checked(Load({"interfaces"}))))

\* The effects load the rest again when the device is there.
DeviceDetail ==
  Behind("loading",
    "loadDevice" :> loadDevice @@ "loadInterfaces" :> loadInterfaces
    @@ DeviceMetrics
    @@ "handleRefresh" :> Call({"loadDevice", "loadOpticalMetrics",
         "loadAvailabilityMetrics", "loadInterfaces", "loadAlarms"}))

PowerTrends ==
  Behind("loading",
    "loadInterfaces" :> Internal(OnMount(Busy("loading",
                          Load({"interfaces"}))))
    @@ "loadPowerHistory" :> Disabled({"loadingData"}, Busy("loadingData",
                               Load({"powerHistory"}))))

\* Loaded for the addresses in the URL.
Topology ==
  "loadTopologyData" :> OnMount(Busy("loading",
    Disabled({"loading"}, Load({"topology"}))))

-----------------------------------------------------------------------------
\* hooks: loads by parameters, polls, and a mutation.
useApi == "fetch" :> OnMount(OnSelect(Busy("loading", Load({"data"}))))

useApiList == "fetch" :> OnMount(OnSelect(Busy("loading", Load({"list"}))))

useMutation == "mutate" :> Busy("loading", Ask)

\* Only refetch and the first fetch show that they are loading.
usePolling ==
  "refetch" :> OnMount(Busy("loading", Load({"data"})))
  @@ "fetch" :> Internal(Polled(Load({"data"})))

usePollingList ==
  "refetch" :> OnMount(Busy("loading", Load({"list"})))
  @@ "fetch" :> Internal(Polled(Load({"list"})))

\* The hooks of useMetrics and useHealth look at the status themselves, show
\* nothing after an error, and load again when a parameter changes.
ByParameter ==
  "fetch" :> OnMount(OnSelect(Busy("loading", Blanks(Checked(
               Load({"data"}))))))

useOpticalMetrics == ByParameter

useInterfaceMetrics == ByParameter

useAvailabilityMetrics == ByParameter

useDeviceMetricsSummary == ByParameter

useSiteMetricsSummary == ByParameter

useDeviceHealth == ByParameter

useSiteHealth == ByParameter

useNetworkHealth ==
  "fetch" :> OnMount(Busy("loading", Blanks(Checked(Load({"data"})))))

useCalculateHealth == "calculate" :> Busy("calculating", Checked(Ask))

\* Whether NetBox is configured, then whether it answers.
useNetBoxStatus ==
  "checkStatus" :> OnMount(Busy("loading", Blanks(
                     Seq2(Load({"status"}), Load({"status"})))))

useNetBoxDevices ==
  "fetchDevices" :> OnMount(Disabled({"loading"}, Busy("loading",
                      Blanks(Load({"devices"})))))

useNetBoxDevice ==
  "fetchDevice" :> OnMount(OnSelect(Busy("loading", Blanks(
                     Load({"device"})))))

useNetBoxLookups ==
  "fetchLookups" :> OnMount(Busy("loading", LoadEach({"sites", "roles"})))

useNetBoxTags == "fetch" :> OnMount(Busy("loading", Blanks(Load({"data"}))))

useNetBoxIPRanges == useNetBoxTags

useNetBoxPrefixes == useNetBoxTags

-----------------------------------------------------------------------------
\* features/workflow-builder: what the builder asks of the server.
checkPrerequisite == LoadEach({"results"})

\* One request after the other.
usePrerequisiteCheck ==
  "checkWorkflowPrerequisites" :>
    Busy("checking", Seq2(checkPrerequisite, checkPrerequisite))

useCredentialValidation ==
  "fetchCredentials" :> OnMount(Busy("loading",
                          Checked(Load({"credentials"}))))

NetBoxSelector ==
  "fetchOptions" :> Internal(OnMount(OnSelect(Busy("loading",
                      Checked(Load({"options"}))))))

NetBoxDeviceTypeSelector ==
  "fetchOptions" :> Internal(OnMount(Busy("loading",
                      Checked(Load({"deviceTypes"})))))

NetBoxTagsSelector ==
  "fetchOptions" :> Internal(OnMount(Busy("loading",
                      Unchecked(Load({"tags"})))))

\* The number of devices for the chosen filters, once the lookups are there.
NetBoxDeviceSelector ==
  Behind("loading",
    "loadLookups" :> Internal(OnMount(Initially("loading",
      Then({"loadDeviceCount"}, LoadEach({"sites", "roles"})))))
    @@ "loadDeviceCount" :> Internal(OnSelect(Busy("loadingCount",
                              Blanks(Load({"count"}))))))
=============================================================================
