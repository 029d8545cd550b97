--------------------------- MODULE VendorPackages ---------------------------
(***************************************************************************)
(* The node types for the equipment of a vendor and for the systems the    *)
(* workflows are connected to; see NodePackages.                           *)
(***************************************************************************)
EXTENDS NodeFields
LOCAL INSTANCE TLC

-----------------------------------------------------------------------------
\* ciena-saos/index.js: Ciena SAOS.
ciena_show_interface == Node("discover", {"ciena-saos"}, {"trigger"},
    {"targets"}, Ends, {"results", "interfaces"},
  Select("target_type", "device_group", {"ip_list", "device_group",
      "from_input"}) @@ Select("interface_filter", "other", {"specific",
      "other"}) @@ On({"include_stats"}) @@ ShowIf("target_type",
      {"ip_list"}, Blank({"ip_list"})) @@ ShowIf("target_type",
      {"device_group"}, Blank({"device_group"})) @@ ShowIf("target_type",
      {"from_input"}, Text({"input_expression"})) @@
      ShowIf("interface_filter", {"specific"}, Text({"interface_name"})) @@
      Advanced(Positive({"cli_port", "timeout"})))

ciena_show_optics == Node("discover", {"ciena-saos"}, {"trigger"},
    {"targets"}, Ends, {"results", "optics", "alerts"},
  Select("target_type", "device_group", {"ip_list", "device_group",
      "from_input"}) @@ Select("interface_filter", "other", {"specific",
      "other"}) @@ On({"alert_thresholds"}) @@ ShowIf("target_type",
      {"ip_list"}, Blank({"ip_list"})) @@ ShowIf("target_type",
      {"device_group"}, Blank({"device_group"})) @@ ShowIf("target_type",
      {"from_input"}, Text({"input_expression"})) @@
      ShowIf("interface_filter", {"specific"}, Blank({"interface_name"})) @@
      ShowIf("alert_thresholds", {"on"}, Number({"tx_low_threshold",
      "tx_high_threshold", "rx_low_threshold"}) @@
      NumberZero({"rx_high_threshold"})))

ciena_show_lldp == Node("discovery", AnyPlatform, {"trigger"}, {"targets"},
    Ends, {"results", "neighbors", "links"},
  Select("target_type", "device_group", {"ip_list", "device_group",
      "from_input"}) @@ Pick({"detail_level"}) @@ ShowIf("target_type",
      {"ip_list"}, Blank({"ip_list"})) @@ ShowIf("target_type",
      {"device_group"}, Blank({"device_group"})) @@ ShowIf("target_type",
      {"from_input"}, Text({"input_expression"})))

ciena_show_alarms == Node("discover", {"ciena-saos"}, {"trigger"},
    {"targets"}, Ends, {"results", "alarms", "critical", "major"},
  Select("target_type", "device_group", {"ip_list", "device_group",
      "from_input"}) @@ Pick({"severity_filter"}) @@ Off({"include_cleared"})
      @@ ShowIf("target_type", {"ip_list"}, Blank({"ip_list"})) @@
      ShowIf("target_type", {"device_group"}, Blank({"device_group"})) @@
      ShowIf("target_type", {"from_input"}, Text({"input_expression"})))

ciena_show_version == Node("discover", {"ciena-saos"}, {"trigger"},
    {"targets"}, Ends, {"results", "versions"},
  Select("target_type", "device_group", {"ip_list", "device_group",
      "from_input"}) @@ ShowIf("target_type", {"ip_list"},
      Blank({"ip_list"})) @@ ShowIf("target_type", {"device_group"},
      Blank({"device_group"})) @@ ShowIf("target_type", {"from_input"},
      Text({"input_expression"})))

ciena_custom_command == Node("discover", {"ciena-saos"}, {"trigger"},
    {"targets"}, Ends, {"results", "output"},
  Select("target_type", "device_group", {"ip_list", "device_group",
      "from_input"}) @@ Required(Blank({"command"})) @@
      Text({"expect_prompt"}) @@ Positive({"timeout"}) @@
      ShowIf("target_type", {"ip_list"}, Blank({"ip_list"})) @@
      ShowIf("target_type", {"device_group"}, Blank({"device_group"})) @@
      ShowIf("target_type", {"from_input"}, Text({"input_expression"})))

ciena_show_port == Node("discover", {"ciena-saos"}, {"trigger"}, {"targets"},
    Ends, {"results", "ports"},
  Select("target_type", "device_group", {"ip_list", "device_group", "other"})
      @@ Select("port_filter", "other", {"specific", "other"}) @@
      Off({"show_stats"}) @@ ShowIf("target_type", {"ip_list"},
      Blank({"ip_list"})) @@ ShowIf("target_type", {"device_group"},
      Blank({"device_group"})) @@ ShowIf("port_filter", {"specific"},
      Text({"port"})))

ciena_show_xcvr == Node("discover", {"ciena-saos"}, {"trigger"}, {"targets"},
    Ends, {"results", "xcvr", "diagnostics"},
  Select("target_type", "device_group", {"ip_list", "device_group", "other"})
      @@ Select("port_filter", "other", {"specific", "other"}) @@
      Pick({"detail_level"}) @@ On({"check_thresholds"}) @@
      ShowIf("target_type", {"ip_list"}, Blank({"ip_list"})) @@
      ShowIf("target_type", {"device_group"}, Blank({"device_group"})) @@
      ShowIf("port_filter", {"specific"}, Text({"port"})) @@
      Advanced(Number({"tx_low_warn", "tx_high_warn", "rx_low_warn"}) @@
      NumberZero({"rx_high_warn"})))

ciena_port_enable == Node("configure", {"ciena-saos"}, {"trigger"},
    {"targets"}, Ends, {"results"},
  Select("target_type", "ip_list", {"ip_list", "device_group", "other"}) @@
      Required(Text({"port"})) @@ ShowIf("target_type", {"ip_list"},
      Blank({"ip_list"})) @@ ShowIf("target_type", {"device_group"},
      Blank({"device_group"})))

ciena_port_disable == Node("configure", {"ciena-saos"}, {"trigger"},
    {"targets"}, Ends, {"results"},
  Select("target_type", "ip_list", {"ip_list", "device_group", "other"}) @@
      Required(Text({"port"})) @@ ShowIf("target_type", {"ip_list"},
      Blank({"ip_list"})) @@ ShowIf("target_type", {"device_group"},
      Blank({"device_group"})))

ciena_port_set_description == Node("configure", {"ciena-saos"}, {"trigger"},
    {"targets"}, Ends, {"results"},
  Select("target_type", "ip_list", {"ip_list", "device_group", "other"}) @@
      Required(Text({"port"})) @@ Required(Blank({"description"})) @@
      ShowIf("target_type", {"ip_list"}, Blank({"ip_list"})) @@
      ShowIf("target_type", {"device_group"}, Blank({"device_group"})))

ciena_show_vlan == Node("discover", {"ciena-saos"}, {"trigger"}, {"targets"},
    Ends, {"results", "vlans"},
  Select("target_type", "device_group", {"ip_list", "device_group", "other"})
      @@ Select("vlan_filter", "other", {"specific", "other"}) @@
      ShowIf("target_type", {"ip_list"}, Blank({"ip_list"})) @@
      ShowIf("target_type", {"device_group"}, Blank({"device_group"})) @@
      ShowIf("vlan_filter", {"specific"}, Positive({"vlan_id"})))

ciena_vlan_create == Node("configure", {"ciena-saos"}, {"trigger"},
    {"targets"}, Ends, {"results"},
  Select("target_type", "ip_list", {"ip_list", "device_group", "other"}) @@
      Required(Positive({"vlan_id"})) @@ Blank({"vlan_name"}) @@
      ShowIf("target_type", {"ip_list"}, Blank({"ip_list"})) @@
      ShowIf("target_type", {"device_group"}, Blank({"device_group"})))

ciena_vlan_add_port == Node("configure", {"ciena-saos"}, {"trigger"},
    {"targets"}, Ends, {"results"},
  Select("target_type", "ip_list", {"ip_list", "device_group", "other"}) @@
      Required(Positive({"vlan_id"})) @@ Required(Text({"port"})) @@
      Pick({"tag_mode"}) @@ ShowIf("target_type", {"ip_list"},
      Blank({"ip_list"})) @@ ShowIf("target_type", {"device_group"},
      Blank({"device_group"})))

ciena_show_service == Node("discover", {"ciena-saos"}, {"trigger"},
    {"targets"}, Ends, {"results", "services"},
  Select("target_type", "device_group", {"ip_list", "device_group", "other"})
      @@ Pick({"service_type"}) @@ Blank({"service_name"}) @@
      ShowIf("target_type", {"ip_list"}, Blank({"ip_list"})) @@
      ShowIf("target_type", {"device_group"}, Blank({"device_group"})))

ciena_show_virtual_switch == Node("discover", {"ciena-saos"}, {"trigger"},
    {"targets"}, Ends, {"results", "vs_data"},
  Select("target_type", "device_group", {"ip_list", "device_group", "other"})
      @@ Blank({"vs_name"}) @@ ShowIf("target_type", {"ip_list"},
      Blank({"ip_list"})) @@ ShowIf("target_type", {"device_group"},
      Blank({"device_group"})))

ciena_show_chassis == Node("discover", {"ciena-saos"}, {"trigger"},
    {"targets"}, Ends, {"results", "chassis"},
  Select("target_type", "device_group", {"ip_list", "device_group", "other"})
      @@ ShowIf("target_type", {"ip_list"}, Blank({"ip_list"})) @@
      ShowIf("target_type", {"device_group"}, Blank({"device_group"})))

ciena_config_save == Node("configure", {"ciena-saos"}, {"trigger"},
    {"targets"}, Ends, {"results"},
  Select("target_type", "ip_list", {"ip_list", "device_group", "other"}) @@
      Text({"filename"}) @@ ShowIf("target_type", {"ip_list"},
      Blank({"ip_list"})) @@ ShowIf("target_type", {"device_group"},
      Blank({"device_group"})))

ciena_show_running_config == Node("discover", {"ciena-saos"}, {"trigger"},
    {"targets"}, Ends, {"results", "config"},
  Select("target_type", "device_group", {"ip_list", "device_group", "other"})
      @@ Pick({"section"}) @@ ShowIf("target_type", {"ip_list"},
      Blank({"ip_list"})) @@ ShowIf("target_type", {"device_group"},
      Blank({"device_group"})))

ciena_show_traffic_profile == Node("discover", {"ciena-saos"}, {"trigger"},
    {"targets"}, Ends, {"results", "profiles"},
  Select("target_type", "device_group", {"ip_list", "device_group", "other"})
      @@ Blank({"profile_name"}) @@ ShowIf("target_type", {"ip_list"},
      Blank({"ip_list"})) @@ ShowIf("target_type", {"device_group"},
      Blank({"device_group"})))

ciena_show_ring == Node("discover", {"ciena-saos"}, {"trigger"}, {"targets"},
    Ends, {"results", "rings"},
  Select("target_type", "device_group", {"ip_list", "device_group", "other"})
      @@ Blank({"ring_name"}) @@ ShowIf("target_type", {"ip_list"},
      Blank({"ip_list"})) @@ ShowIf("target_type", {"device_group"},
      Blank({"device_group"})))

-----------------------------------------------------------------------------
\* axis-cameras.js: Axis Cameras.
axis_ptz_home == Node("configure", {"axis-camera"}, {"trigger"}, {"targets"},
    Ends, {"results"},
  Select("target_type", "device_group", {"ip_list", "device_group",
      "from_input"}) @@ Positive({"channel", "speed"}) @@
      ShowIf("target_type", {"ip_list"}, Blank({"ip_list"})) @@
      ShowIf("target_type", {"device_group"}, Blank({"device_group"})) @@
      ShowIf("target_type", {"from_input"}, Text({"input_expression"})) @@
      Advanced(Positive({"timeout"})))

axis_ptz_preset == Node("configure", {"axis-camera"}, {"trigger"},
    {"targets"}, Ends, {"results"},
  Select("target_type", "device_group", {"ip_list", "device_group",
      "from_input"}) @@ Blank({"preset_name"}) @@ Positive({"preset_number",
      "channel", "speed"}) @@ Off({"use_number"}) @@ ShowIf("target_type",
      {"ip_list"}, Blank({"ip_list"})) @@ ShowIf("target_type",
      {"device_group"}, Blank({"device_group"})) @@ ShowIf("target_type",
      {"from_input"}, Text({"input_expression"})) @@
      Advanced(Positive({"timeout"})))

axis_ptz_move == Node("configure", {"axis-camera"}, {"trigger"}, {"targets"},
    Ends, {"results"},
  Select("target_type", "device_group", {"ip_list", "device_group",
      "from_input"}) @@ Select("move_type", "continuous", {"continuous",
      "other"}) @@ Zero({"pan", "tilt"}) @@ Positive({"zoom", "channel",
      "speed"}) @@ ShowIf("target_type", {"ip_list"}, Blank({"ip_list"})) @@
      ShowIf("target_type", {"device_group"}, Blank({"device_group"})) @@
      ShowIf("target_type", {"from_input"}, Text({"input_expression"})) @@
      ShowIf("move_type", {"continuous"}, Pick({"direction"})) @@
      Advanced(Positive({"timeout"})))

axis_ptz_list_presets == Node("discover", {"axis-camera"}, {"trigger"},
    {"targets"}, Ends, {"results", "presets"},
  Select("target_type", "device_group", {"ip_list", "device_group",
      "from_input"}) @@ Positive({"channel"}) @@ ShowIf("target_type",
      {"ip_list"}, Blank({"ip_list"})) @@ ShowIf("target_type",
      {"device_group"}, Blank({"device_group"})) @@ ShowIf("target_type",
      {"from_input"}, Text({"input_expression"})) @@
      Advanced(Positive({"timeout"})))

axis_snapshot == Node("discover", {"axis-camera"}, {"trigger"}, {"targets"},
    Ends, {"results", "images"},
  Select("target_type", "device_group", {"ip_list", "device_group",
      "from_input"}) @@ Pick({"resolution"}) @@ Natural({"compression"}) @@
      Positive({"channel"}) @@ On({"save_to_disk"}) @@ ShowIf("target_type",
      {"ip_list"}, Blank({"ip_list"})) @@ ShowIf("target_type",
      {"device_group"}, Blank({"device_group"})) @@ ShowIf("target_type",
      {"from_input"}, Text({"input_expression"})) @@ ShowIf("save_to_disk",
      {"on"}, Text({"save_path"})) @@ Advanced(Positive({"timeout"})))

axis_auto_focus == Node("configure", {"axis-camera"}, {"trigger"},
    {"targets"}, Ends, {"results"},
  Select("target_type", "device_group", {"ip_list", "device_group",
      "from_input"}) @@ Pick({"focus_mode"}) @@ Positive({"channel"}) @@
      ShowIf("target_type", {"ip_list"}, Blank({"ip_list"})) @@
      ShowIf("target_type", {"device_group"}, Blank({"device_group"})) @@
      ShowIf("target_type", {"from_input"}, Text({"input_expression"})) @@
      Advanced(Positive({"timeout"})))

axis_reboot == Node("configure", {"axis-camera"}, {"trigger"}, {"targets"},
    Ends, {"results"},
  Select("target_type", "device_group", {"ip_list", "device_group",
      "from_input"}) @@ Off({"confirm"}) @@ On({"wait_for_recovery"}) @@
      ShowIf("target_type", {"ip_list"}, Blank({"ip_list"})) @@
      ShowIf("target_type", {"device_group"}, Blank({"device_group"})) @@
      ShowIf("target_type", {"from_input"}, Text({"input_expression"})) @@
      ShowIf("wait_for_recovery", {"on"}, Positive({"recovery_timeout"})) @@
      Advanced(Positive({"timeout"})))

axis_device_info == Node("discover", {"axis-camera"}, {"trigger"},
    {"targets"}, Ends, {"results", "devices"},
  Select("target_type", "device_group", {"ip_list", "device_group",
      "from_input"}) @@ Pick({"info_type"}) @@ ShowIf("target_type",
      {"ip_list"}, Blank({"ip_list"})) @@ ShowIf("target_type",
      {"device_group"}, Blank({"device_group"})) @@ ShowIf("target_type",
      {"from_input"}, Text({"input_expression"})) @@
      Advanced(Positive({"timeout"})))

axis_stream_config == Node("discover", {"axis-camera"}, {"trigger"},
    {"targets"}, Ends, {"results", "streams"},
  Select("target_type", "device_group", {"ip_list", "device_group",
      "from_input"}) @@ Positive({"channel"}) @@ ShowIf("target_type",
      {"ip_list"}, Blank({"ip_list"})) @@ ShowIf("target_type",
      {"device_group"}, Blank({"device_group"})) @@ ShowIf("target_type",
      {"from_input"}, Text({"input_expression"})) @@
      Advanced(Positive({"timeout"})))

axis_get_time == Node("discover", {"axis-camera"}, {"trigger"}, {"targets"},
    Ends, {"results", "time_settings"},
  Select("target_type", "device_group", {"ip_list", "device_group",
      "from_input"}) @@ ShowIf("target_type", {"ip_list"},
      Blank({"ip_list"})) @@ ShowIf("target_type", {"device_group"},
      Blank({"device_group"})) @@ ShowIf("target_type", {"from_input"},
      Text({"input_expression"})) @@ Advanced(Positive({"timeout"})))

axis_set_time == Node("configure", {"axis-camera"}, {"trigger"}, {"targets"},
    Ends, {"results"},
  Select("target_type", "device_group", {"ip_list", "device_group",
      "from_input"}) @@ Select("time_source", "ntp", {"ntp", "other"}) @@
      Pick({"timezone"}) @@ ShowIf("target_type", {"ip_list"},
      Blank({"ip_list"})) @@ ShowIf("target_type", {"device_group"},
      Blank({"device_group"})) @@ ShowIf("target_type", {"from_input"},
      Text({"input_expression"})) @@ ShowIf("time_source", {"ntp"},
      Text({"ntp_server"})) @@ Advanced(Positive({"timeout"})))

axis_image_settings == Node("discover", {"axis-camera"}, {"trigger"},
    {"targets"}, Ends, {"results", "settings"},
  Select("target_type", "device_group", {"ip_list", "device_group",
      "from_input"}) @@ Positive({"channel"}) @@ ShowIf("target_type",
      {"ip_list"}, Blank({"ip_list"})) @@ ShowIf("target_type",
      {"device_group"}, Blank({"device_group"})) @@ ShowIf("target_type",
      {"from_input"}, Text({"input_expression"})) @@
      Advanced(Positive({"timeout"})))

axis_set_image == Node("configure", {"axis-camera"}, {"trigger"},
    {"targets"}, Ends, {"results"},
  Select("target_type", "device_group", {"ip_list", "device_group",
      "from_input"}) @@ Natural({"brightness", "contrast", "saturation",
      "sharpness"}) @@ Pick({"ir_cut_filter"}) @@ Positive({"channel"}) @@
      ShowIf("target_type", {"ip_list"}, Blank({"ip_list"})) @@
      ShowIf("target_type", {"device_group"}, Blank({"device_group"})) @@
      ShowIf("target_type", {"from_input"}, Text({"input_expression"})) @@
      Advanced(Positive({"timeout"})))

axis_get_events == Node("discover", {"axis-camera"}, {"trigger"},
    {"targets"}, Ends, {"results", "events"},
  Select("target_type", "device_group", {"ip_list", "device_group",
      "from_input"}) @@ Positive({"max_events"}) @@ ShowIf("target_type",
      {"ip_list"}, Blank({"ip_list"})) @@ ShowIf("target_type",
      {"device_group"}, Blank({"device_group"})) @@ ShowIf("target_type",
      {"from_input"}, Text({"input_expression"})) @@
      Advanced(Positive({"timeout"})))

axis_trigger_io == Node("configure", {"axis-camera"}, {"trigger"},
    {"targets"}, Ends, {"results"},
  Select("target_type", "device_group", {"ip_list", "device_group",
      "from_input"}) @@ Positive({"port"}) @@ Select("action", "pulse",
      {"pulse", "other"}) @@ ShowIf("target_type", {"ip_list"},
      Blank({"ip_list"})) @@ ShowIf("target_type", {"device_group"},
      Blank({"device_group"})) @@ ShowIf("target_type", {"from_input"},
      Text({"input_expression"})) @@ ShowIf("action", {"pulse"},
      Positive({"duration"})) @@ Advanced(Positive({"timeout"})))

axis_storage_info == Node("discover", {"axis-camera"}, {"trigger"},
    {"targets"}, Ends, {"results", "storage"},
  Select("target_type", "device_group", {"ip_list", "device_group",
      "from_input"}) @@ ShowIf("target_type", {"ip_list"},
      Blank({"ip_list"})) @@ ShowIf("target_type", {"device_group"},
      Blank({"device_group"})) @@ ShowIf("target_type", {"from_input"},
      Text({"input_expression"})) @@ Advanced(Positive({"timeout"})))

axis_recording_control == Node("configure", {"axis-camera"}, {"trigger"},
    {"targets"}, Ends, {"results"},
  Select("target_type", "device_group", {"ip_list", "device_group",
      "from_input"}) @@ Pick({"action"}) @@ Blank({"profile"}) @@
      ShowIf("target_type", {"ip_list"}, Blank({"ip_list"})) @@
      ShowIf("target_type", {"device_group"}, Blank({"device_group"})) @@
      ShowIf("target_type", {"from_input"}, Text({"input_expression"})) @@
      Advanced(Positive({"timeout"})))

axis_network_settings == Node("discover", {"axis-camera"}, {"trigger"},
    {"targets"}, Ends, {"results", "network"},
  Select("target_type", "device_group", {"ip_list", "device_group",
      "from_input"}) @@ ShowIf("target_type", {"ip_list"},
      Blank({"ip_list"})) @@ ShowIf("target_type", {"device_group"},
      Blank({"device_group"})) @@ ShowIf("target_type", {"from_input"},
      Text({"input_expression"})) @@ Advanced(Positive({"timeout"})))

axis_firmware_check == Node("discover", {"axis-camera"}, {"trigger"},
    {"targets"}, Ends, {"results", "firmware"},
  Select("target_type", "device_group", {"ip_list", "device_group",
      "from_input"}) @@ ShowIf("target_type", {"ip_list"},
      Blank({"ip_list"})) @@ ShowIf("target_type", {"device_group"},
      Blank({"device_group"})) @@ ShowIf("target_type", {"from_input"},
      Text({"input_expression"})) @@ Advanced(Positive({"timeout"})))

-----------------------------------------------------------------------------
\* windows-systems.js: Windows Systems.
windows_powershell == Node("configure", {"windows"}, {"trigger"},
    {"targets"}, Ends, {"results", "output"},
  Select("target_type", "device_group", {"ip_list", "device_group",
      "from_input"}) @@ Text({"script"}) @@ ShowIf("target_type",
      {"ip_list"}, Blank({"ip_list"})) @@ ShowIf("target_type",
      {"device_group"}, Blank({"device_group"})) @@ ShowIf("target_type",
      {"from_input"}, Text({"input_expression"})) @@
      Advanced(Positive({"timeout"})))

windows_cmd == Node("configure", {"windows"}, {"trigger"}, {"targets"}, Ends,
    {"results", "output"},
  Select("target_type", "device_group", {"ip_list", "device_group",
      "from_input"}) @@ Text({"command"}) @@ ShowIf("target_type",
      {"ip_list"}, Blank({"ip_list"})) @@ ShowIf("target_type",
      {"device_group"}, Blank({"device_group"})) @@ ShowIf("target_type",
      {"from_input"}, Text({"input_expression"})) @@
      Advanced(Positive({"timeout"})))

windows_system_info == Node("query", {"windows"}, {"trigger"}, {"targets"},
    Ends, {"results", "system_info"},
  Select("target_type", "device_group", {"ip_list", "device_group",
      "from_input"}) @@ ShowIf("target_type", {"ip_list"},
      Blank({"ip_list"})) @@ ShowIf("target_type", {"device_group"},
      Blank({"device_group"})) @@ ShowIf("target_type", {"from_input"},
      Text({"input_expression"})) @@ Advanced(Positive({"timeout"})))

windows_disk_space == Node("query", {"windows"}, {"trigger"}, {"targets"},
    Ends, {"results", "disks"},
  Select("target_type", "device_group", {"ip_list", "device_group",
      "from_input"}) @@ ShowIf("target_type", {"ip_list"},
      Blank({"ip_list"})) @@ ShowIf("target_type", {"device_group"},
      Blank({"device_group"})) @@ ShowIf("target_type", {"from_input"},
      Text({"input_expression"})) @@ Advanced(Positive({"timeout"})))

windows_network_config == Node("query", {"windows"}, {"trigger"},
    {"targets"}, Ends, {"results", "network_config"},
  Select("target_type", "device_group", {"ip_list", "device_group",
      "from_input"}) @@ ShowIf("target_type", {"ip_list"},
      Blank({"ip_list"})) @@ ShowIf("target_type", {"device_group"},
      Blank({"device_group"})) @@ ShowIf("target_type", {"from_input"},
      Text({"input_expression"})) @@ Advanced(Positive({"timeout"})))

windows_get_services == Node("query", {"windows"}, {"trigger"}, {"targets"},
    Ends, {"results", "services"},
  Select("target_type", "device_group", {"ip_list", "device_group",
      "from_input"}) @@ Blank({"service_name", "status_filter"}) @@
      ShowIf("target_type", {"ip_list"}, Blank({"ip_list"})) @@
      ShowIf("target_type", {"device_group"}, Blank({"device_group"})) @@
      ShowIf("target_type", {"from_input"}, Text({"input_expression"})) @@
      Advanced(Positive({"timeout"})))

windows_start_service == Node("configure", {"windows"}, {"trigger"},
    {"targets"}, Ends, {"results"},
  Select("target_type", "device_group", {"ip_list", "device_group",
      "from_input"}) @@ Blank({"service_name"}) @@ ShowIf("target_type",
      {"ip_list"}, Blank({"ip_list"})) @@ ShowIf("target_type",
      {"device_group"}, Blank({"device_group"})) @@ ShowIf("target_type",
      {"from_input"}, Text({"input_expression"})) @@
      Advanced(Positive({"timeout"})))

windows_stop_service == Node("configure", {"windows"}, {"trigger"},
    {"targets"}, Ends, {"results"},
  Select("target_type", "device_group", {"ip_list", "device_group",
      "from_input"}) @@ Blank({"service_name"}) @@ ShowIf("target_type",
      {"ip_list"}, Blank({"ip_list"})) @@ ShowIf("target_type",
      {"device_group"}, Blank({"device_group"})) @@ ShowIf("target_type",
      {"from_input"}, Text({"input_expression"})) @@
      Advanced(Positive({"timeout"})))

windows_restart_service == Node("configure", {"windows"}, {"trigger"},
    {"targets"}, Ends, {"results"},
  Select("target_type", "device_group", {"ip_list", "device_group",
      "from_input"}) @@ Blank({"service_name"}) @@ ShowIf("target_type",
      {"ip_list"}, Blank({"ip_list"})) @@ ShowIf("target_type",
      {"device_group"}, Blank({"device_group"})) @@ ShowIf("target_type",
      {"from_input"}, Text({"input_expression"})) @@
      Advanced(Positive({"timeout"})))

windows_get_processes == Node("query", {"windows"}, {"trigger"}, {"targets"},
    Ends, {"results", "processes"},
  Select("target_type", "device_group", {"ip_list", "device_group",
      "from_input"}) @@ Blank({"process_name"}) @@ ShowIf("target_type",
      {"ip_list"}, Blank({"ip_list"})) @@ ShowIf("target_type",
      {"device_group"}, Blank({"device_group"})) @@ ShowIf("target_type",
      {"from_input"}, Text({"input_expression"})) @@
      Advanced(Positive({"timeout"})))

windows_stop_process == Node("configure", {"windows"}, {"trigger"},
    {"targets"}, Ends, {"results"},
  Select("target_type", "device_group", {"ip_list", "device_group",
      "from_input"}) @@ Blank({"process_name"}) @@ Off({"force"}) @@
      ShowIf("target_type", {"ip_list"}, Blank({"ip_list"})) @@
      ShowIf("target_type", {"device_group"}, Blank({"device_group"})) @@
      ShowIf("target_type", {"from_input"}, Text({"input_expression"})) @@
      Advanced(Positive({"timeout"})))

windows_event_log == Node("query", {"windows"}, {"trigger"}, {"targets"},
    Ends, {"results", "events"},
  Select("target_type", "device_group", {"ip_list", "device_group",
      "from_input"}) @@ Pick({"log_name"}) @@ Blank({"entry_type"}) @@
      Positive({"newest"}) @@ ShowIf("target_type", {"ip_list"},
      Blank({"ip_list"})) @@ ShowIf("target_type", {"device_group"},
      Blank({"device_group"})) @@ ShowIf("target_type", {"from_input"},
      Text({"input_expression"})) @@ Advanced(Positive({"timeout"})))

windows_installed_software == Node("query", {"windows"}, {"trigger"},
    {"targets"}, Ends, {"results", "software"},
  Select("target_type", "device_group", {"ip_list", "device_group",
      "from_input"}) @@ Blank({"name_filter"}) @@ ShowIf("target_type",
      {"ip_list"}, Blank({"ip_list"})) @@ ShowIf("target_type",
      {"device_group"}, Blank({"device_group"})) @@ ShowIf("target_type",
      {"from_input"}, Text({"input_expression"})) @@
      Advanced(Positive({"timeout"})))

windows_pending_updates == Node("query", {"windows"}, {"trigger"},
    {"targets"}, Ends, {"results", "updates"},
  Select("target_type", "device_group", {"ip_list", "device_group",
      "from_input"}) @@ ShowIf("target_type", {"ip_list"},
      Blank({"ip_list"})) @@ ShowIf("target_type", {"device_group"},
      Blank({"device_group"})) @@ ShowIf("target_type", {"from_input"},
      Text({"input_expression"})) @@ Advanced(Positive({"timeout"})))

windows_update_history == Node("query", {"windows"}, {"trigger"},
    {"targets"}, Ends, {"results", "history"},
  Select("target_type", "device_group", {"ip_list", "device_group",
      "from_input"}) @@ Positive({"max_results"}) @@ ShowIf("target_type",
      {"ip_list"}, Blank({"ip_list"})) @@ ShowIf("target_type",
      {"device_group"}, Blank({"device_group"})) @@ ShowIf("target_type",
      {"from_input"}, Text({"input_expression"})) @@
      Advanced(Positive({"timeout"})))

windows_local_users == Node("query", {"windows"}, {"trigger"}, {"targets"},
    Ends, {"results", "users"},
  Select("target_type", "device_group", {"ip_list", "device_group",
      "from_input"}) @@ ShowIf("target_type", {"ip_list"},
      Blank({"ip_list"})) @@ ShowIf("target_type", {"device_group"},
      Blank({"device_group"})) @@ ShowIf("target_type", {"from_input"},
      Text({"input_expression"})) @@ Advanced(Positive({"timeout"})))

windows_local_groups == Node("query", {"windows"}, {"trigger"}, {"targets"},
    Ends, {"results", "groups"},
  Select("target_type", "device_group", {"ip_list", "device_group",
      "from_input"}) @@ ShowIf("target_type", {"ip_list"},
      Blank({"ip_list"})) @@ ShowIf("target_type", {"device_group"},
      Blank({"device_group"})) @@ ShowIf("target_type", {"from_input"},
      Text({"input_expression"})) @@ Advanced(Positive({"timeout"})))

windows_file_exists == Node("query", {"windows"}, {"trigger"}, {"targets"},
    Ends, {"results", "exists"},
  Select("target_type", "device_group", {"ip_list", "device_group",
      "from_input"}) @@ Text({"path"}) @@ ShowIf("target_type", {"ip_list"},
      Blank({"ip_list"})) @@ ShowIf("target_type", {"device_group"},
      Blank({"device_group"})) @@ ShowIf("target_type", {"from_input"},
      Text({"input_expression"})) @@ Advanced(Positive({"timeout"})))

windows_get_file_content == Node("query", {"windows"}, {"trigger"},
    {"targets"}, Ends, {"results", "content"},
  Select("target_type", "device_group", {"ip_list", "device_group",
      "from_input"}) @@ Blank({"path"}) @@ Pick({"encoding"}) @@
      ShowIf("target_type", {"ip_list"}, Blank({"ip_list"})) @@
      ShowIf("target_type", {"device_group"}, Blank({"device_group"})) @@
      ShowIf("target_type", {"from_input"}, Text({"input_expression"})) @@
      Advanced(Positive({"timeout"})))

windows_list_directory == Node("query", {"windows"}, {"trigger"},
    {"targets"}, Ends, {"results", "items"},
  Select("target_type", "device_group", {"ip_list", "device_group",
      "from_input"}) @@ Text({"path"}) @@ Off({"recurse"}) @@
      ShowIf("target_type", {"ip_list"}, Blank({"ip_list"})) @@
      ShowIf("target_type", {"device_group"}, Blank({"device_group"})) @@
      ShowIf("target_type", {"from_input"}, Text({"input_expression"})) @@
      Advanced(Positive({"timeout"})))

windows_reboot == Node("configure", {"windows"}, {"trigger"}, {"targets"},
    Ends, {"results"},
  Select("target_type", "device_group", {"ip_list", "device_group",
      "from_input"}) @@ Off({"confirm", "force"}) @@ Zero({"delay_seconds"})
      @@ On({"wait_for_recovery"}) @@ ShowIf("target_type", {"ip_list"},
      Blank({"ip_list"})) @@ ShowIf("target_type", {"device_group"},
      Blank({"device_group"})) @@ ShowIf("target_type", {"from_input"},
      Text({"input_expression"})) @@ Advanced(Positive({"timeout"})))

windows_shutdown == Node("configure", {"windows"}, {"trigger"}, {"targets"},
    Ends, {"results"},
  Select("target_type", "device_group", {"ip_list", "device_group",
      "from_input"}) @@ Off({"confirm", "force"}) @@ Zero({"delay_seconds"})
      @@ ShowIf("target_type", {"ip_list"}, Blank({"ip_list"})) @@
      ShowIf("target_type", {"device_group"}, Blank({"device_group"})) @@
      ShowIf("target_type", {"from_input"}, Text({"input_expression"})) @@
      Advanced(Positive({"timeout"})))

windows_test_connection == Node("query", {"windows"}, {"trigger"},
    {"targets"}, Ends, {"results", "hostname"},
  Select("target_type", "device_group", {"ip_list", "device_group",
      "from_input"}) @@ ShowIf("target_type", {"ip_list"},
      Blank({"ip_list"})) @@ ShowIf("target_type", {"device_group"},
      Blank({"device_group"})) @@ ShowIf("target_type", {"from_input"},
      Text({"input_expression"})) @@ Advanced(Positive({"timeout"})))

-----------------------------------------------------------------------------
\* netbox/index.js: NetBox.
netbox_device_create == Node("configure", AnyPlatform, {"trigger"},
    {"items"}, {"success", "failure", "each"}, {"device", "devices", "count",
    "failed_items"},
  Select("mode", "batch", {"batch", "other"}) @@ Select("name_source",
      "from_item", {"from_item", "expression", "static"}) @@
      Required(NoDefault(Text({"site_id", "role_id", "device_type_id"}))) @@
      Pick({"status"}) @@ NoDefault(Text({"description"})) @@ ShowIf("mode",
      {"batch"}, Text({"input_expression"}) @@ On({"create_primary_ip"})) @@
      ShowIf("name_source", {"expression"}, Text({"name_expression"})) @@
      ShowIf("name_source", {"static"}, NoDefault(Text({"name"}))) @@
      ShowIf("name_source", {"from_item"}, NoDefault(Text({"name_prefix"})))
      @@ Advanced(NoDefault(Text({"serial", "asset_tag", "comments"})) @@
      NoDefault(Pick({"tags"})) @@ On({"skip_duplicates",
      "continue_on_error"})))

netbox_device_update == Node("configure", AnyPlatform, {"trigger"},
    {"device_id", "update_data"}, Ends, {"device"},
  Select("device_selector", "name", {"name", "id", "from_input"}) @@
      NoDefault(Pick({"update_status"})) @@ NoDefault(Text({"update_serial",
      "update_description"})) @@ ShowIf("device_selector", {"name"},
      NoDefault(Text({"name"}))) @@ ShowIf("device_selector", {"id"},
      NoDefault(Number({"device_id"}))) @@ ShowIf("device_selector",
      {"from_input"}, Text({"input_expression"})))

netbox_device_delete == Node("configure", AnyPlatform, {"trigger"},
    {"device_id"}, Ends, {"deleted_id"},
  Select("device_selector", "name", {"name", "id", "other"}) @@
      Required(Off({"confirm_delete"})) @@ ShowIf("device_selector",
      {"name"}, NoDefault(Text({"name"}))) @@ ShowIf("device_selector",
      {"id"}, NoDefault(Number({"device_id"}))))

netbox_device_get == Node("discover", AnyPlatform, {"trigger"},
    {"device_id"}, Ends, {"device", "primary_ip"},
  Select("device_selector", "name", {"name", "id", "other"}) @@
      ShowIf("device_selector", {"name"}, NoDefault(Text({"name"}))) @@
      ShowIf("device_selector", {"id"}, NoDefault(Number({"device_id"}))))

netbox_device_list == Node("discover", AnyPlatform, {"trigger"}, {}, Ends,
    {"devices", "count", "ip_addresses"},
  NoDefault(Text({"site", "role", "search"})) @@ NoDefault(Pick({"status"}))
      @@ NoDefault(NoInput({"tag"})) @@ Positive({"limit"}))

netbox_vm_create == Node("configure", AnyPlatform, {"trigger"}, {}, Ends,
    {"vm", "vm_id"},
  Required(NoDefault(Text({"name"}))) @@
      Required(NoDefault(NoInput({"cluster_id"}))) @@ Pick({"status"}) @@
      NoDefault(Positive({"vcpus", "memory", "disk"})) @@
      NoDefault(Text({"description"})))

netbox_vm_list == Node("discover", AnyPlatform, {"trigger"}, {}, Ends,
    {"vms", "count"},
  NoDefault(NoInput({"cluster", "tag"})) @@ NoDefault(Pick({"status"})) @@
      Number({"limit"}))

netbox_interface_create == Node("configure", AnyPlatform, {"trigger"},
    {"device_id"}, Ends, {"interface", "interface_id"},
  NoDefault(Text({"device_name", "mac_address", "description"})) @@
      Required(Text({"name"})) @@ Pick({"type"}) @@ On({"enabled"}))

netbox_interface_assign_ip == Node("configure", AnyPlatform, {"trigger"},
    {"interface_id", "ip_address"}, Ends, {"ip"},
  Required(NoDefault(Number({"interface_id"}))) @@
      Required(NoDefault(Text({"ip_address"}))))

netbox_interface_list == Node("discover", AnyPlatform, {"trigger"},
    {"device_id"}, Ends, {"interfaces"},
  NoDefault(Text({"device_name"})) @@ NoDefault(Number({"device_id"})))

netbox_ip_create == Node("configure", AnyPlatform, {"trigger"}, {}, Ends,
    {"ip", "ip_id"},
  Required(NoDefault(Text({"address"}))) @@ Pick({"status"}) @@
      NoDefault(Text({"dns_name", "description"})))

netbox_ip_assign_primary == Node("configure", AnyPlatform, {"trigger"},
    {"device_id", "ip_id"}, Ends, {"device"},
  NoDefault(Text({"device_name", "ip_address"})) @@ Pick({"ip_version"}))

netbox_discover_ping == Node("discovery", AnyPlatform, {"trigger"},
    {"targets"}, Ends, {"results", "responding", "created_devices"},
  Select("target_type", "ip_list", {"ip_list", "other"}) @@
      Off({"create_devices"}) @@ ShowIf("target_type", {"ip_list"},
      NoDefault(Text({"targets"}))) @@ ShowIf("create_devices", {"on"},
      NoDefault(Text({"site_id", "role_id", "device_type_id"}))))

netbox_discover_snmp == Node("discovery", AnyPlatform, {"trigger"},
    {"target"}, Ends, {"discovered", "hostname", "description", "platform"},
  Required(NoDefault(Text({"target"}))) @@ Text({"community"}) @@
      Pick({"version"}) @@ On({"update_netbox"}) @@ ShowIf("update_netbox",
      {"on"}, NoDefault(Text({"site_id", "role_id", "device_type_id"}))))

netbox_discover_hostname == Node("discovery", AnyPlatform, {"trigger"},
    {"target"}, Ends, {"hostname", "discovered"},
  Required(NoDefault(Text({"target"}))) @@ Off({"update_netbox"}))

netbox_discover_full == Node("discovery", AnyPlatform, {"trigger"},
    {"target"}, Ends, {"discovered", "device"},
  Required(NoDefault(Text({"target"}))) @@ Text({"snmp_community"}) @@
      Pick({"snmp_version"}) @@ On({"update_netbox"}) @@
      ShowIf("update_netbox", {"on"}, NoDefault(Text({"site_id", "role_id",
      "device_type_id"}))))

netbox_discover_interfaces == Node("discovery", AnyPlatform, {"trigger"},
    {"target"}, Ends, {"interfaces", "synced"},
  Required(NoDefault(Text({"target"}))) @@ Required(Text({"snmp_community"}))
      @@ Pick({"snmp_version"}) @@ Off({"sync_netbox"}) @@
      ShowIf("sync_netbox", {"on"}, NoDefault(Text({"device_name"})) @@
      Pick({"interface_type"})))

netbox_bulk_update == Node("configure", AnyPlatform, {"trigger"},
    {"device_ids"}, Ends, {"updated", "errors"},
  NoDefault(Text({"device_ids"})) @@ Required(NoDefault(Pick({"field"}))) @@
      Required(NoDefault(Text({"value"}))))

netbox_bulk_tag == Node("configure", AnyPlatform, {"trigger"},
    {"device_ids"}, Ends, {"updated", "errors"},
  NoDefault(Text({"device_ids"})) @@ NoDefault(Pick({"tags",
      "remove_tags"})))

netbox_lookup_sites == Node("discover", AnyPlatform, {"trigger"}, {}, Ends,
    {"sites"},
  Number({"limit"}))

netbox_lookup_roles == Node("discover", AnyPlatform, {"trigger"}, {}, Ends,
    {"roles"},
  Number({"limit"}))

netbox_lookup_platforms == Node("discover", AnyPlatform, {"trigger"}, {},
    Ends, {"platforms"},
  Number({"limit"}))

netbox_lookup_tags == Node("discover", AnyPlatform, {"trigger"}, {}, Ends,
    {"tags"},
  Number({"limit"}))

netbox_autodiscovery == Node("discover", AnyPlatform, {"trigger"},
    {"targets"}, {"success", "failure", "each_device"}, {"created_devices",
    "updated_devices", "skipped_devices", "failed_hosts", "discovery_report",
    "current_device"},
  Select("target_type", "network_range", {"network_range", "ip_range",
      "ip_list", "netbox_prefix", "netbox_ip_range", "from_input"}) @@
      NoDefault(Text({"exclude_ips", "default_site", "default_role",
      "default_device_type"})) @@ Pick({"discovery_methods",
      "default_status", "sync_mode", "match_by"}) @@ On({"snmp_enabled",
      "port_scan_enabled", "create_interfaces", "create_ip_addresses",
      "add_discovery_tag"}) @@ Off({"ssh_enabled", "winrm_enabled",
      "create_services"}) @@ Select("device_naming", "other", {"prefix_ip",
      "other"}) @@ ShowIf("target_type", {"network_range"},
      Text({"network_range"})) @@ ShowIf("target_type", {"ip_range"},
      NoDefault(Text({"ip_range_start", "ip_range_end"}))) @@
      ShowIf("target_type", {"ip_list"}, NoDefault(Text({"ip_list"}))) @@
      ShowIf("target_type", {"netbox_prefix"},
      NoDefault(NoInput({"netbox_prefix_id"}))) @@ ShowIf("target_type",
      {"netbox_ip_range"}, NoDefault(NoInput({"netbox_ip_range_id"}))) @@
      ShowIf("target_type", {"from_input"}, Text({"input_expression"})) @@
      ShowIf("snmp_enabled", {"on"}, Select("snmp_version", "2c", {"1", "2c",
      "3"})) @@ ShowIf("snmp_version", {"1", "2c"},
      Text({"snmp_communities"})) @@ ShowIf("snmp_version", {"3"},
      NoDefault(NoInput({"snmp_credential"}))) @@ ShowIf("ssh_enabled",
      {"on"}, NoDefault(NoInput({"ssh_credential"}))) @@
      ShowIf("winrm_enabled", {"on"},
      NoDefault(NoInput({"winrm_credential"})) @@ On({"winrm_use_ssl"})) @@
      ShowIf("port_scan_enabled", {"on"}, Text({"ports_to_scan"})) @@
      ShowIf("device_naming", {"prefix_ip"},
      NoDefault(Text({"name_prefix"}))) @@ Advanced(Positive({"ping_timeout",
      "ping_count", "snmp_timeout", "port_scan_timeout"}) @@
      Natural({"snmp_retries"}) @@ On({"continue_on_error",
      "skip_ping_failures", "use_mac_oui"}) @@
      Off({"auto_create_device_types", "auto_create_manufacturers"})))

netbox_snmp_walker == Node("discover", AnyPlatform, {"trigger"}, {"targets",
    "snmp_hosts"}, {"success", "failure", "each_device"}, {"walk_results",
    "interfaces_discovered", "neighbors_discovered", "failed_hosts",
    "current_result", "summary"},
  Select("target_source", "other", {"from_input", "ip_list", "other"}) @@
      Select("snmp_version", "2c", {"1", "2c", "3"}) @@ Pick({"walk_tables"})
      @@ Positive({"timeout_seconds", "max_results_per_table"}) @@
      Natural({"retry_count"}) @@ On({"update_netbox"}) @@
      Off({"include_raw_data"}) @@ ShowIf("target_source", {"ip_list"},
      NoDefault(Text({"ip_list"}))) @@ ShowIf("target_source",
      {"from_input"}, Text({"input_expression"})) @@ ShowIf("snmp_version",
      {"1", "2c"}, Text({"snmp_community"}) @@
      On({"use_discovered_community"})) @@ ShowIf("snmp_version", {"3"},
      NoDefault(NoInput({"snmp_credential"}))) @@ ShowIf("update_netbox",
      {"on"}, On({"sync_interfaces", "sync_ip_addresses"}) @@
      Off({"sync_neighbors"})) @@ Advanced(NoDefault(Text({"custom_oids"}))
      @@ Number({"snmp_port"}) @@ Positive({"bulk_get_size"})))

netbox_snmp_interface_sync == Node("discover", AnyPlatform, {"trigger"},
    {"targets"}, Ends, {"interfaces", "synced_count"},
  Select("target_source", "other", {"ip_list", "other"}) @@
      Text({"snmp_community"}) @@ On({"sync_to_netbox"}) @@
      NoDefault(Text({"interface_filter"})) @@ ShowIf("target_source",
      {"ip_list"}, NoDefault(Text({"ip_list"}))))

netbox_snmp_neighbor_discovery == Node("discover", AnyPlatform, {"trigger"},
    {"targets"}, Ends, {"neighbors", "topology", "cables_created"},
  Select("target_source", "other", {"ip_list", "other"}) @@
      Text({"snmp_community"}) @@ Pick({"protocols"}) @@
      Off({"create_cables"}) @@ On({"build_topology"}) @@
      ShowIf("target_source", {"ip_list"}, NoDefault(Text({"ip_list"}))))

-----------------------------------------------------------------------------
\* prtg.js: PRTG Network Monitor.
prtg_get_devices == Node("query", AnyPlatform, {}, {}, {}, {"devices",
    "count"},
  NoDefault(NoInput({"group", "search"})) @@ NoDefault(Pick({"status"})))

prtg_get_sensors == Node("query", AnyPlatform, {}, {}, {}, {"sensors",
    "count"},
  NoDefault(NoInput({"device_id", "sensor_type"})) @@
      NoDefault(Pick({"status"})))

prtg_get_sensor_details == Node("query", AnyPlatform, {}, {"sensor_id"}, {},
    {"sensor", "channels"},
  Required(NoDefault(NoInput({"sensor_id"}))))

prtg_get_alerts == Node("query", AnyPlatform, {}, {}, {}, {"alerts",
    "count"},
  NoDefault(Pick({"status"})))

prtg_get_groups == Node("query", AnyPlatform, {}, {}, {}, {"groups",
    "count"},
  NoFields)

prtg_get_sensor_history == Node("query", AnyPlatform, {}, {"sensor_id"}, {},
    {"history", "channels"},
  Required(NoDefault(NoInput({"sensor_id"}))) @@
      NoDefault(NoInput({"start_date", "end_date"})) @@ NumberZero({"avg"}))

prtg_acknowledge_alarm == Node("action", AnyPlatform, {}, {"sensor_id"}, {},
    {"success"},
  Required(NoDefault(NoInput({"sensor_id"}))) @@
      NoDefault(Text({"message"})))

prtg_pause_object == Node("action", AnyPlatform, {}, {"object_id"}, {},
    {"success"},
  Required(NoDefault(NoInput({"object_id"}))) @@
      NoDefault(Number({"duration"})) @@ NoDefault(Text({"message"})))

prtg_resume_object == Node("action", AnyPlatform, {}, {"object_id"}, {},
    {"success"},
  Required(NoDefault(NoInput({"object_id"}))))

prtg_sync_to_netbox == Node("sync", AnyPlatform, {}, {}, {}, {"processed",
    "created", "updated", "skipped", "errors", "details"},
  NoInput({"dry_run", "create_missing"}) @@ NoInputBlank({"update_existing"})
      @@ NoDefault(Number({"default_site", "default_role"})))

prtg_preview_sync == Node("sync", AnyPlatform, {}, {}, {},
    {"total_prtg_devices", "existing_in_netbox", "to_create",
    "devices_to_create", "devices_existing"},
  NoFields)

prtg_alert_trigger == Node("trigger", AnyPlatform, {}, {}, {}, {"alert",
    "device_name", "sensor_name", "severity", "message", "host"},
  NoDefault(NoInput({"severity_filter", "device_filter", "sensor_filter"})))

-----------------------------------------------------------------------------
\* mcp.js: Ciena MCP.
mcp_get_devices == Node("query", AnyPlatform, {}, {}, {}, {"devices",
    "device_count"},
  Number({"limit"}))

mcp_get_equipment == Node("query", AnyPlatform, {}, {}, {}, {"equipment",
    "equipment_count"},
  NoDefault(NoInput({"device_id"})))

mcp_get_links == Node("query", AnyPlatform, {}, {}, {}, {"links",
    "link_count"},
  NoFields)

mcp_get_summary == Node("query", AnyPlatform, {}, {}, {}, {"devices",
    "equipment", "links"},
  NoFields)

mcp_sync_devices == Node("sync", AnyPlatform, {}, {}, {}, {"total",
    "created", "updated", "skipped", "errors"},
  NoInput({"sync_to_netbox"}) @@ NoInputBlank({"create_missing"}) @@
      NoDefault(Number({"site_id", "device_role_id"})))

mcp_sync_equipment == Node("sync", AnyPlatform, {}, {}, {}, {"total",
    "created", "updated", "skipped", "errors"},
  NoInput({"sync_to_netbox"}))

mcp_full_discovery == Node("workflow", AnyPlatform, {}, {}, {}, {"devices",
    "equipment", "links", "netbox_sync"},
  NoInput({"sync_to_netbox", "snmp_community"}) @@
      NoInputBlank({"include_snmp"}))

mcp_get_services == Node("monitor", AnyPlatform, {}, {}, {}, {"services",
    "service_count", "up_count", "down_count"},
  NoDefault(Pick({"service_class"})))

mcp_get_rings == Node("monitor", AnyPlatform, {}, {}, {}, {"rings",
    "ring_count", "ok_count", "failed_count"},
  NoFields)

mcp_service_summary == Node("monitor", AnyPlatform, {}, {}, {}, {"total",
    "by_class", "by_state", "rings", "down_services"},
  NoFields)

mcp_monitor_services == Node("monitor", AnyPlatform, {}, {}, {},
    {"services_checked", "down_services", "ring_failures", "alerts"},
  NoInput({"alert_on_down", "alert_on_ring_failure"}) @@
      NoDefault(NoInput({"service_classes"})))

-----------------------------------------------------------------------------
\* The packages.
CienaSaosPackage == "ciena:show-interface" :> ciena_show_interface
  @@ "ciena:show-optics" :> ciena_show_optics
  @@ "ciena:show-lldp" :> ciena_show_lldp
  @@ "ciena:show-alarms" :> ciena_show_alarms
  @@ "ciena:show-version" :> ciena_show_version
  @@ "ciena:custom-command" :> ciena_custom_command
  @@ "ciena:show-port" :> ciena_show_port
  @@ "ciena:show-xcvr" :> ciena_show_xcvr
  @@ "ciena:port-enable" :> ciena_port_enable
  @@ "ciena:port-disable" :> ciena_port_disable
  @@ "ciena:port-set-description" :> ciena_port_set_description
  @@ "ciena:show-vlan" :> ciena_show_vlan
  @@ "ciena:vlan-create" :> ciena_vlan_create
  @@ "ciena:vlan-add-port" :> ciena_vlan_add_port
  @@ "ciena:show-service" :> ciena_show_service
  @@ "ciena:show-virtual-switch" :> ciena_show_virtual_switch
  @@ "ciena:show-chassis" :> ciena_show_chassis
  @@ "ciena:config-save" :> ciena_config_save
  @@ "ciena:show-running-config" :> ciena_show_running_config
  @@ "ciena:show-traffic-profile" :> ciena_show_traffic_profile
  @@ "ciena:show-ring" :> ciena_show_ring

AxisCamerasPackage == "axis:ptz-home" :> axis_ptz_home
  @@ "axis:ptz-preset" :> axis_ptz_preset @@ "axis:ptz-move" :> axis_ptz_move
  @@ "axis:ptz-list-presets" :> axis_ptz_list_presets
  @@ "axis:snapshot" :> axis_snapshot @@ "axis:auto-focus" :> axis_auto_focus
  @@ "axis:reboot" :> axis_reboot @@ "axis:device-info" :> axis_device_info
  @@ "axis:stream-config" :> axis_stream_config
  @@ "axis:get-time" :> axis_get_time @@ "axis:set-time" :> axis_set_time
  @@ "axis:image-settings" :> axis_image_settings
  @@ "axis:set-image" :> axis_set_image
  @@ "axis:get-events" :> axis_get_events
  @@ "axis:trigger-io" :> axis_trigger_io
  @@ "axis:storage-info" :> axis_storage_info
  @@ "axis:recording-control" :> axis_recording_control
  @@ "axis:network-settings" :> axis_network_settings
  @@ "axis:firmware-check" :> axis_firmware_check

WindowsSystemsPackage == "windows:powershell" :> windows_powershell
  @@ "windows:cmd" :> windows_cmd
  @@ "windows:system-info" :> windows_system_info
  @@ "windows:disk-space" :> windows_disk_space
  @@ "windows:network-config" :> windows_network_config
  @@ "windows:get-services" :> windows_get_services
  @@ "windows:start-service" :> windows_start_service
  @@ "windows:stop-service" :> windows_stop_service
  @@ "windows:restart-service" :> windows_restart_service
  @@ "windows:get-processes" :> windows_get_processes
  @@ "windows:stop-process" :> windows_stop_process
  @@ "windows:event-log" :> windows_event_log
  @@ "windows:installed-software" :> windows_installed_software
  @@ "windows:pending-updates" :> windows_pending_updates
  @@ "windows:update-history" :> windows_update_history
  @@ "windows:local-users" :> windows_local_users
  @@ "windows:local-groups" :> windows_local_groups
  @@ "windows:file-exists" :> windows_file_exists
  @@ "windows:get-file-content" :> windows_get_file_content
  @@ "windows:list-directory" :> windows_list_directory
  @@ "windows:reboot" :> windows_reboot
  @@ "windows:shutdown" :> windows_shutdown
  @@ "windows:test-connection" :> windows_test_connection

NetboxPackage == "netbox:device-create" :> netbox_device_create
  @@ "netbox:device-update" :> netbox_device_update
  @@ "netbox:device-delete" :> netbox_device_delete
  @@ "netbox:device-get" :> netbox_device_get
  @@ "netbox:device-list" :> netbox_device_list
  @@ "netbox:vm-create" :> netbox_vm_create
  @@ "netbox:vm-list" :> netbox_vm_list
  @@ "netbox:interface-create" :> netbox_interface_create
  @@ "netbox:interface-assign-ip" :> netbox_interface_assign_ip
  @@ "netbox:interface-list" :> netbox_interface_list
  @@ "netbox:ip-create" :> netbox_ip_create
  @@ "netbox:ip-assign-primary" :> netbox_ip_assign_primary
  @@ "netbox:discover-ping" :> netbox_discover_ping
  @@ "netbox:discover-snmp" :> netbox_discover_snmp
  @@ "netbox:discover-hostname" :> netbox_discover_hostname
  @@ "netbox:discover-full" :> netbox_discover_full
  @@ "netbox:discover-interfaces" :> netbox_discover_interfaces
  @@ "netbox:bulk-update" :> netbox_bulk_update
  @@ "netbox:bulk-tag" :> netbox_bulk_tag
  @@ "netbox:lookup-sites" :> netbox_lookup_sites
  @@ "netbox:lookup-roles" :> netbox_lookup_roles
  @@ "netbox:lookup-platforms" :> netbox_lookup_platforms
  @@ "netbox:lookup-tags" :> netbox_lookup_tags
  @@ "netbox:autodiscovery" :> netbox_autodiscovery
  @@ "netbox:snmp-walker" :> netbox_snmp_walker
  @@ "netbox:snmp-interface-sync" :> netbox_snmp_interface_sync
  @@ "netbox:snmp-neighbor-discovery" :> netbox_snmp_neighbor_discovery

PrtgPackage == "prtg:get-devices" :> prtg_get_devices
  @@ "prtg:get-sensors" :> prtg_get_sensors
  @@ "prtg:get-sensor-details" :> prtg_get_sensor_details
  @@ "prtg:get-alerts" :> prtg_get_alerts
  @@ "prtg:get-groups" :> prtg_get_groups
  @@ "prtg:get-sensor-history" :> prtg_get_sensor_history
  @@ "prtg:acknowledge-alarm" :> prtg_acknowledge_alarm
  @@ "prtg:pause-object" :> prtg_pause_object
  @@ "prtg:resume-object" :> prtg_resume_object
  @@ "prtg:sync-to-netbox" :> prtg_sync_to_netbox
  @@ "prtg:preview-sync" :> prtg_preview_sync
  @@ "prtg:alert-trigger" :> prtg_alert_trigger

McpPackage == "mcp:get-devices" :> mcp_get_devices
  @@ "mcp:get-equipment" :> mcp_get_equipment
  @@ "mcp:get-links" :> mcp_get_links @@ "mcp:get-summary" :> mcp_get_summary
  @@ "mcp:sync-devices" :> mcp_sync_devices
  @@ "mcp:sync-equipment" :> mcp_sync_equipment
  @@ "mcp:full-discovery" :> mcp_full_discovery
  @@ "mcp:get-services" :> mcp_get_services
  @@ "mcp:get-rings" :> mcp_get_rings
  @@ "mcp:service-summary" :> mcp_service_summary
  @@ "mcp:monitor-services" :> mcp_monitor_services

=============================================================================
