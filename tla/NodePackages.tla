---------------------------- MODULE NodePackages ----------------------------
(***************************************************************************)
(* The node types of every workflow, and all the packages together.        *)
(***************************************************************************)
EXTENDS VendorPackages
LOCAL INSTANCE TLC

-----------------------------------------------------------------------------
\* core.js: Core.
trigger_manual == Node("triggers", AnyPlatform, {}, {}, {"trigger"}, {},
  Text({"name"}))

trigger_schedule == Node("triggers", AnyPlatform, {}, {}, {"trigger"}, {},
  Select("schedule_type", "interval", {"interval", "cron"}) @@
      Pick({"timezone"}) @@ ShowIf("schedule_type", {"interval"},
      Positive({"interval_minutes"})) @@ ShowIf("schedule_type", {"cron"},
      Text({"cron_expression"})))

trigger_webhook == Node("triggers", AnyPlatform, {}, {}, {"trigger"},
    {"body", "headers"},
  Text({"path"}) @@ Pick({"method"}))

logic_if == Node("logic", AnyPlatform, {"trigger"}, {"value"}, {"true",
    "false"}, {},
  Select("condition_type", "expression", {"expression", "equals",
      "not_equals", "greater_than", "less_than", "contains", "other"}) @@
      ShowIf("condition_type", {"expression"}, Text({"expression"})) @@
      ShowIf("condition_type", {"equals", "not_equals", "greater_than",
      "less_than", "contains"}, Blank({"compare_value"})))

logic_switch == Node("logic", AnyPlatform, {"trigger"}, {"value"}, {"case_0",
    "case_1", "case_2", "default"}, {},
  Text({"switch_value"}) @@ NoInput({"cases"}))

logic_loop == Node("logic", AnyPlatform, {"trigger"}, {"items"}, {"each",
    "done"}, {"item", "index", "results"},
  Text({"items_expression"}) @@ Positive({"batch_size"}) @@
      On({"continue_on_error"}))

logic_wait == Node("logic", AnyPlatform, {"trigger"}, {}, {"trigger"}, {},
  Select("wait_type", "seconds", {"seconds", "until"}) @@ ShowIf("wait_type",
      {"seconds"}, Positive({"seconds"})) @@ ShowIf("wait_type", {"until"},
      Blank({"condition"}) @@ Number({"timeout"})))

logic_merge == Node("logic", AnyPlatform, {"input_1", "input_2", "input_3"},
    {}, {"trigger"}, {"data"},
  Pick({"mode"}))

data_set_variable == Node("data", AnyPlatform, {"trigger"}, {"value"},
    {"trigger"}, {},
  Required(Text({"variable_name"})) @@ Text({"value_expression"}))

data_debug == Node("data", AnyPlatform, {"trigger"}, {"data"}, {"trigger"},
    {"data"},
  Text({"label"}) @@ On({"log_to_console"}) @@ Off({"pause_execution"}))

data_transform == Node("data", AnyPlatform, {"trigger"}, {"data"},
    {"trigger"}, {"result"},
  Pick({"transform_type"}) @@ Text({"expression"}))

-----------------------------------------------------------------------------
\* network-discovery.js: Network Discovery.
network_ping == Node("discover", AnyPlatform, {"trigger"}, {"targets"}, Ends,
    {"results", "online", "offline", "count_online", "count_offline"},
  Select("target_type", "network_range", {"network_range", "ip_list",
      "device_group", "netbox_devices", "from_input", "other"}) @@
      Positive({"count", "timeout"}) @@ ShowIf("target_type",
      {"network_range"}, Text({"network_range"})) @@ ShowIf("target_type",
      {"ip_list"}, Blank({"ip_list"})) @@ ShowIf("target_type",
      {"device_group"}, Blank({"device_group"})) @@ ShowIf("target_type",
      {"netbox_devices"}, Pick({"netbox_filter"})) @@ ShowIf("target_type",
      {"from_input"}, Text({"input_expression"})) @@
      Advanced(Zero({"retry_count"}) @@ Natural({"retry_delay"}) @@
      Blank({"exclude_list"})))

network_port_scan == Node("discover", AnyPlatform, {"trigger"}, {"targets"},
    Ends, {"results", "open_ports"},
  Select("target_type", "from_input", {"network_range", "ip_list",
      "from_input"}) @@ Text({"ports"}) @@ Pick({"protocol"}) @@
      Positive({"timeout"}) @@ ShowIf("target_type", {"network_range"},
      Blank({"network_range"})) @@ ShowIf("target_type", {"ip_list"},
      Blank({"ip_list"})) @@ ShowIf("target_type", {"from_input"},
      Text({"input_expression"})))

network_traceroute == Node("discover", AnyPlatform, {"trigger"}, {"targets"},
    Ends, {"results", "hops"},
  Select("target_type", "ip_list", {"ip_list", "from_input"}) @@
      Positive({"max_hops", "timeout"}) @@ ShowIf("target_type", {"ip_list"},
      Blank({"ip_list"})) @@ ShowIf("target_type", {"from_input"},
      Text({"input_expression"})))

network_arp_scan == Node("discover", AnyPlatform, {"trigger"}, {}, Ends,
    {"results", "mac_addresses"},
  Text({"interface", "network_range"}))

-----------------------------------------------------------------------------
\* snmp.js: SNMP.
snmp_get == Node("discover", {"network-device", "linux", "windows"},
    {"trigger"}, {"targets"}, Ends, {"results", "values", "successful_hosts",
    "failed_hosts"},
  Select("target_type", "from_input", {"ip_list", "device_group",
      "from_input"}) @@ Select("version", "2c", {"1", "2c", "3"}) @@
      Text({"oids"}) @@ Positive({"timeout"}) @@ Natural({"retries"}) @@
      ShowIf("target_type", {"ip_list"}, Blank({"ip_list"})) @@
      ShowIf("target_type", {"device_group"}, Blank({"device_group"})) @@
      ShowIf("target_type", {"from_input"}, Text({"input_expression"})) @@
      ShowIf("version", {"1", "2c"}, Text({"community"})) @@
      Advanced(Positive({"port"}) @@ ShowIf("version", {"3"},
      Pick({"security_level", "auth_protocol", "priv_protocol"}) @@
      Blank({"username", "auth_password", "priv_password"}))))

snmp_walk == Node("discover", {"network-device", "linux", "windows"},
    {"trigger"}, {"targets"}, Ends, {"results", "tree"},
  Select("target_type", "from_input", {"ip_list", "from_input"}) @@
      Select("version", "2c", {"1", "2c", "other"}) @@ Text({"root_oid"}) @@
      Positive({"timeout", "max_repetitions"}) @@ ShowIf("target_type",
      {"ip_list"}, Blank({"ip_list"})) @@ ShowIf("target_type",
      {"from_input"}, Text({"input_expression"})) @@ ShowIf("version", {"1",
      "2c"}, Text({"community"})))

snmp_set == Node("configure", {"network-device", "linux", "windows"},
    {"trigger"}, {"targets"}, Ends, {"results"},
  Select("target_type", "ip_list", {"ip_list", "from_input"}) @@
      Select("version", "2c", {"2c", "other"}) @@ Required(Blank({"oid",
      "value"})) @@ Pick({"value_type"}) @@ ShowIf("target_type",
      {"ip_list"}, Blank({"ip_list"})) @@ ShowIf("target_type",
      {"from_input"}, Text({"input_expression"})) @@ ShowIf("version",
      {"2c"}, Text({"community"})))

-----------------------------------------------------------------------------
\* ssh.js: SSH.
ssh_command == Node("configure", {"linux", "unix", "network-device"},
    {"trigger"}, {"targets"}, Ends, {"results", "stdout", "successful_hosts",
    "failed_hosts"},
  Select("target_type", "from_input", {"ip_list", "device_group",
      "from_input"}) @@ Required(Blank({"command"})) @@ Select("auth_type",
      "key", {"key", "password", "credential_store"}) @@ Text({"username"})
      @@ Positive({"timeout"}) @@ ShowIf("target_type", {"ip_list"},
      Blank({"ip_list"})) @@ ShowIf("target_type", {"device_group"},
      Blank({"device_group"})) @@ ShowIf("target_type", {"from_input"},
      Text({"input_expression"})) @@ ShowIf("auth_type", {"password"},
      Blank({"password"})) @@ ShowIf("auth_type", {"key"},
      Text({"key_path"})) @@ ShowIf("auth_type", {"credential_store"},
      NoInputBlank({"credential_id"})) @@ Advanced(Positive({"port"}) @@
      Off({"strict_host_key", "sudo"}) @@ ShowIf("sudo", {"on"},
      Blank({"sudo_password"}))))

ssh_script == Node("configure", {"linux", "unix"}, {"trigger"}, {"targets"},
    Ends, {"results"},
  Select("target_type", "from_input", {"ip_list", "from_input"}) @@
      Required(Text({"script"})) @@ Pick({"interpreter"}) @@
      Text({"username"}) @@ Positive({"timeout"}) @@ ShowIf("target_type",
      {"ip_list"}, Blank({"ip_list"})) @@ ShowIf("target_type",
      {"from_input"}, Text({"input_expression"})))

ssh_scp_download == Node("data", {"linux", "unix", "network-device"},
    {"trigger"}, {"targets"}, Ends, {"files"},
  Select("target_type", "ip_list", {"ip_list", "other"}) @@
      Required(Text({"remote_path", "local_path"})) @@ Text({"username"}) @@
      ShowIf("target_type", {"ip_list"}, Blank({"ip_list"})))

ssh_scp_upload == Node("configure", {"linux", "unix", "network-device"},
    {"trigger"}, {"targets"}, Ends, {"results"},
  Select("target_type", "ip_list", {"ip_list", "other"}) @@
      Required(Blank({"local_path"})) @@ Required(Text({"remote_path"})) @@
      Text({"username"}) @@ ShowIf("target_type", {"ip_list"},
      Blank({"ip_list"})))

-----------------------------------------------------------------------------
\* database.js: Database.
db_insert == Node("data", AnyPlatform, {"trigger"}, {"data"}, Ends,
    {"inserted", "ids", "count"},
  Required(Select("table", "other", {"custom", "other"})) @@
      Select("data_source", "from_input", {"from_input", "manual"}) @@
      ShowIf("table", {"custom"}, Blank({"custom_table"})) @@
      ShowIf("data_source", {"from_input"}, Text({"data_expression"})) @@
      ShowIf("data_source", {"manual"}, Pick({"field_mapping"})) @@
      Advanced(Select("on_conflict", "other", {"ignore", "update", "other"})
      @@ Positive({"batch_size"}) @@ ShowIf("on_conflict", {"ignore",
      "update"}, Text({"conflict_columns"}))))

db_update == Node("data", AnyPlatform, {"trigger"}, {"data"}, Ends,
    {"updated", "count"},
  Required(Pick({"table"})) @@ Select("where_type", "key_column",
      {"key_column", "expression"}) @@ Text({"data_expression"}) @@
      ShowIf("where_type", {"key_column"}, Text({"key_column"})) @@
      ShowIf("where_type", {"expression"}, Blank({"where_expression"})))

db_upsert == Node("data", AnyPlatform, {"trigger"}, {"data"}, Ends,
    {"results", "inserted_count", "updated_count"},
  Required(Select("table", "other", {"custom", "other"})) @@
      Required(Text({"key_columns"})) @@ Pick({"data_source"}) @@
      Select("mapping_mode", "other", {"manual", "other"}) @@ ShowIf("table",
      {"custom"}, Blank({"custom_table"})) @@ ShowIf("mapping_mode",
      {"manual"}, Pick({"column_mapping"})))

db_delete == Node("data", AnyPlatform, {"trigger"}, {"ids"}, Ends, {"count"},
  Required(Pick({"table"})) @@ Select("where_type", "by_ids", {"by_ids",
      "by_column", "expression"}) @@ ShowIf("where_type", {"by_ids"},
      Text({"ids_expression"})) @@ ShowIf("where_type", {"by_column"},
      Text({"column_name", "column_values"})) @@ ShowIf("where_type",
      {"expression"}, Blank({"where_expression"})))

db_query == Node("query", AnyPlatform, {"trigger"}, {}, Ends, {"results",
    "count", "first"},
  Select("query_type", "simple", {"simple", "custom"}) @@
      ShowIf("query_type", {"simple"}, Pick({"table"}) @@ Text({"columns"})
      @@ Blank({"where", "order_by"}) @@ Positive({"limit"})) @@
      ShowIf("query_type", {"custom"}, Text({"custom_sql"})))

-----------------------------------------------------------------------------
\* notifications.js: Notifications.
\* Mutant: the template of an email is required.
NotifyEmailNeedsTemplate ==
  Node("output", AnyPlatform, {"trigger"}, {"data"}, Ends, {},
  Required(Blank({"to"})) @@ Blank({"cc"}) @@ Required(Text({"subject"})) @@
      Select("body_type", "text", {"text", "html", "template"}) @@
      ShowIf("body_type", {"text", "html"}, Text({"body"})) @@
      ShowIf("body_type", {"template"},
      Required(Blank({"template_id"}))) @@
      Advanced(Blank({"from"}) @@ Pick({"priority"}) @@
      Off({"attach_data"})))

notify_email == Node("output", AnyPlatform, {"trigger"}, {"data"}, Ends, {},
  Required(Blank({"to"})) @@ Blank({"cc"}) @@ Required(Text({"subject"})) @@
      Select("body_type", "text", {"text", "html", "template"}) @@
      ShowIf("body_type", {"text", "html"}, Text({"body"})) @@
      ShowIf("body_type", {"template"}, Blank({"template_id"})) @@
      Advanced(Blank({"from"}) @@ Pick({"priority"}) @@
      Off({"attach_data"})))

notify_slack == Node("output", AnyPlatform, {"trigger"}, {"data"}, Ends, {},
  Required(Text({"channel"})) @@ Select("message_type", "simple", {"simple",
      "blocks", "template"}) @@ Text({"username", "icon_emoji"}) @@
      ShowIf("message_type", {"simple"}, Text({"message"})) @@
      ShowIf("message_type", {"blocks"}, Text({"blocks"})) @@
      ShowIf("message_type", {"template"}, Pick({"template"})) @@
      Advanced(Blank({"thread_ts"}) @@ Off({"unfurl_links"})))

notify_webhook == Node("output", AnyPlatform, {"trigger"}, {"data"}, Ends,
    {"response"},
  Required(Blank({"url"})) @@ Pick({"method", "content_type", "headers"}) @@
      Select("body_source", "from_input", {"from_input", "custom"}) @@
      Positive({"timeout"}) @@ ShowIf("body_source", {"from_input"},
      Text({"body_expression"})) @@ ShowIf("body_source", {"custom"},
      Text({"custom_body"})) @@ Advanced(Select("auth_type", "other",
      {"basic", "bearer", "api_key", "other"}) @@ Zero({"retry_count"}) @@
      ShowIf("auth_type", {"basic"}, Blank({"auth_username",
      "auth_password"})) @@ ShowIf("auth_type", {"bearer"},
      Blank({"bearer_token"})) @@ ShowIf("auth_type", {"api_key"},
      Text({"api_key_header"}) @@ Blank({"api_key_value"}))))

notify_log == Node("output", AnyPlatform, {"trigger"}, {"data"}, {"trigger"},
    {},
  Pick({"level"}) @@ Text({"message"}) @@ On({"include_data"}) @@
      ShowIf("include_data", {"on"}, Text({"data_expression"})))

-----------------------------------------------------------------------------
\* data-transform.js: Data Transform.
transform_set_fields == Node("data", AnyPlatform, {"input"}, {}, {"output",
    "failure"}, {},
  Select("mode", "manual", {"manual", "expression"}) @@
      Off({"keep_only_set"}) @@ ShowIf("mode", {"manual"},
      NoInput({"fields"})) @@ ShowIf("mode", {"expression"},
      Text({"expression"})))

transform_split == Node("data", AnyPlatform, {"input"}, {}, {"output",
    "failure"}, {},
  Required(Text({"field_to_split"})) @@ On({"include_parent"}) @@
      Blank({"destination_field"}))

transform_merge == Node("data", AnyPlatform, {"input1", "input2"}, {},
    {"output", "failure"}, {},
  Select("mode", "other", {"other"}) @@ Pick({"clash_handling"}) @@
      ShowIf("mode", {}, Text({"key_field_1", "key_field_2"})))

transform_aggregate == Node("data", AnyPlatform, {"input"}, {}, {"output",
    "failure"}, {},
  Blank({"group_by"}) @@ NoInput({"aggregations"}))

transform_sort == Node("data", AnyPlatform, {"input"}, {}, {"output",
    "failure"}, {},
  NoInput({"sort_fields"}) @@ Off({"case_sensitive"}))

transform_limit == Node("data", AnyPlatform, {"input"}, {}, {"output",
    "failure"}, {},
  Required(Positive({"max_items"})) @@ Zero({"offset"}))

transform_filter == Node("data", AnyPlatform, {"input"}, {}, {"matched",
    "unmatched", "failure"}, {},
  NoInput({"conditions"}) @@ Pick({"combine"}))

transform_code == Node("data", AnyPlatform, {"input"}, {}, {"output",
    "failure"}, {},
  Pick({"mode"}) @@ Required(Text({"code"})))

transform_remove_duplicates == Node("data", AnyPlatform, {"input"}, {},
    {"output", "duplicates", "failure"}, {},
  Required(Text({"compare_field"})) @@ Pick({"keep"}))

transform_rename_keys == Node("data", AnyPlatform, {"input"}, {}, {"output",
    "failure"}, {},
  NoInput({"renames"}))

-----------------------------------------------------------------------------
\* flow-control.js: Flow Control.
flow_wait == Node("logic", AnyPlatform, {"input"}, {}, {"output"}, {},
  Select("wait_type", "fixed", {"fixed", "until_time", "webhook"}) @@
      ShowIf("wait_type", {"fixed"}, Natural({"duration"}) @@
      Pick({"duration_unit"})) @@ ShowIf("wait_type", {"until_time"},
      NoInputBlank({"resume_time"})) @@ ShowIf("wait_type", {"webhook"},
      Blank({"webhook_id"})))

flow_delay == Node("logic", AnyPlatform, {"input"}, {}, {"output"}, {},
  Natural({"delay_seconds"}))

flow_retry == Node("logic", AnyPlatform, {"input"}, {}, Ends, {},
  Positive({"max_retries"}) @@ Natural({"retry_delay"}) @@ Select("backoff",
      "other", {"other"}) @@ ShowIf("backoff", {}, Positive({"max_delay"})))

flow_error_trigger == Node("triggers", AnyPlatform, {}, {}, {"error"}, {},
  Select("error_source", "other", {"specific", "other"}) @@
      On({"continue_workflow"}) @@ ShowIf("error_source", {"specific"},
      NoInputBlank({"source_node_id"})))

flow_stop == Node("logic", AnyPlatform, {"input"}, {}, {}, {},
  Required(Text({"error_message"})) @@ Pick({"error_type"}))

flow_noop == Node("logic", AnyPlatform, {"input"}, {}, {"output"}, {},
  Off({"log_data"}) @@ Blank({"label"}))

flow_switch == Node("logic", AnyPlatform, {"input"}, {}, {"output_0",
    "output_1", "output_2", "default"}, {},
  Select("mode", "rules", {"rules", "expression"}) @@
      Pick({"fallback_output"}) @@ ShowIf("mode", {"rules"},
      NoInput({"rules"})) @@ ShowIf("mode", {"expression"},
      Text({"match_field"}) @@ NoInput({"cases"})))

flow_loop == Node("logic", AnyPlatform, {"input"}, {}, {"loop", "done"}, {},
  Select("loop_type", "other", {"count", "other"}) @@
      Positive({"batch_size"}) @@ ShowIf("loop_type", {"count"},
      Positive({"count"})))

-----------------------------------------------------------------------------
\* http-api.js: HTTP / API.
http_request == Node("data", AnyPlatform, {"input"}, {}, Ends, {},
  Select("method", "other", {"other"}) @@ Required(Blank({"url"})) @@
      Select("authentication", "other", {"basic", "bearer", "api_key",
      "other"}) @@ NoInput({"headers", "query_params"}) @@
      ShowIf("authentication", {"basic"}, Blank({"username", "password"})) @@
      ShowIf("authentication", {"bearer"}, Blank({"bearer_token"})) @@
      ShowIf("authentication", {"api_key"}, Text({"api_key_name"}) @@
      Blank({"api_key_value"})) @@ ShowIf("method", {}, Select("body_type",
      "other", {"json", "form", "raw", "other"})) @@ ShowIf("body_type",
      {"json"}, Text({"body_json"})) @@ ShowIf("body_type", {"form"},
      NoInput({"body_form"})) @@ ShowIf("body_type", {"raw"},
      Blank({"body_raw"})) @@ Advanced(Positive({"timeout"}) @@
      On({"follow_redirects"}) @@ Off({"ignore_ssl"}) @@
      Pick({"response_format"})))

http_webhook_trigger == Node("triggers", AnyPlatform, {}, {}, {"output"}, {},
  Pick({"http_method"}) @@ Required(Text({"path"})) @@
      Select("authentication", "other", {"header", "other"}) @@
      Select("response_mode", "immediately", {"immediately", "other"}) @@
      ShowIf("authentication", {"header"}, Text({"auth_header_name"}) @@
      Blank({"auth_header_value"})) @@ ShowIf("response_mode",
      {"immediately"}, Number({"response_code"}) @@ Text({"response_data"})))

http_respond_webhook == Node("data", AnyPlatform, {"input"}, {}, {"output"},
    {},
  Positive({"response_code"}) @@ Select("response_type", "other",
      {"redirect", "other"}) @@ NoInput({"headers"}) @@
      ShowIf("response_type", {}, Text({"response_body"})) @@
      ShowIf("response_type", {"redirect"}, Blank({"redirect_url"})))

http_graphql == Node("data", AnyPlatform, {"input"}, {}, Ends, {},
  Required(Blank({"endpoint"})) @@ Pick({"operation"}) @@
      Required(Text({"query"})) @@ Text({"variables"}) @@
      Select("authentication", "other", {"bearer", "other"}) @@
      NoInput({"headers"}) @@ ShowIf("authentication", {"bearer"},
      Blank({"bearer_token"})))

-----------------------------------------------------------------------------
\* file-storage.js: File / Storage.
file_read == Node("data", AnyPlatform, {"input"}, {}, Ends, {},
  Required(Blank({"file_path"})) @@ Select("read_as", "other", {"csv",
      "other"}) @@ ShowIf("read_as", {}, Pick({"encoding"})) @@
      ShowIf("read_as", {"csv"}, Text({"csv_delimiter"}) @@
      On({"csv_header"})))

file_write == Node("data", AnyPlatform, {"input"}, {}, Ends, {},
  Required(Blank({"file_path"})) @@ Select("content_source", "input",
      {"input", "static", "expression"}) @@ Pick({"write_mode"}) @@
      Select("format", "other", {"json", "other"}) @@
      ShowIf("content_source", {"input"}, Text({"input_field"})) @@
      ShowIf("content_source", {"static"}, Blank({"static_content"})) @@
      ShowIf("content_source", {"expression"}, Text({"expression"})) @@
      ShowIf("format", {"json"}, On({"json_pretty"})))

file_sftp == Node("data", AnyPlatform, {"input"}, {}, Ends, {},
  Select("operation", "other", {"rename", "other"}) @@
      Required(Blank({"host", "username"})) @@ Positive({"port"}) @@
      Select("auth_type", "password", {"password", "key"}) @@
      Required(Text({"remote_path"})) @@ ShowIf("auth_type", {"password"},
      Blank({"password"})) @@ ShowIf("auth_type", {"key"},
      Blank({"private_key"})) @@ ShowIf("operation", {},
      Blank({"local_path"})) @@ ShowIf("operation", {"rename"},
      Blank({"new_path"})))

file_ftp == Node("data", AnyPlatform, {"input"}, {}, Ends, {},
  Select("operation", "other", {"other"}) @@ Required(Blank({"host"})) @@
      Positive({"port"}) @@ Blank({"username", "password"}) @@
      Off({"secure"}) @@ Required(Text({"remote_path"})) @@
      ShowIf("operation", {}, Blank({"local_path"})))

file_s3 == Node("data", AnyPlatform, {"input"}, {}, Ends, {},
  Select("operation", "other", {"list", "copy", "other"}) @@
      Required(Blank({"bucket"})) @@ Text({"region"}) @@
      Blank({"access_key_id", "secret_access_key"}) @@ ShowIf("operation",
      {}, Blank({"key"})) @@ ShowIf("operation", {"list"}, Blank({"prefix"}))
      @@ ShowIf("operation", {"copy"}, Blank({"destination_bucket",
      "destination_key"})))

-----------------------------------------------------------------------------
\* scheduling.js: Scheduling.
schedule_cron == Node("triggers", AnyPlatform, {}, {}, {"output"}, {},
  Select("mode", "preset", {"preset", "custom"}) @@ Pick({"timezone"}) @@
      ShowIf("mode", {"preset"}, Pick({"preset"})) @@ ShowIf("mode",
      {"custom"}, Text({"cron_expression"})))

schedule_interval == Node("triggers", AnyPlatform, {}, {}, {"output"}, {},
  Required(Positive({"interval"})) @@ Pick({"unit"}) @@
      On({"run_immediately"}))

schedule_time_trigger == Node("triggers", AnyPlatform, {}, {}, {"output"},
    {},
  NoInput({"times"}) @@ Pick({"days", "timezone"}))

schedule_date_trigger == Node("triggers", AnyPlatform, {}, {}, {"output"},
    {},
  NoInput({"dates"}) @@ Text({"time"}) @@ Pick({"timezone"}) @@
      Off({"repeat_yearly"}))

-----------------------------------------------------------------------------
\* parser-format.js: Parser / Format.
parse_json == Node("data", AnyPlatform, {"input"}, {}, Ends, {},
  Select("operation", "other", {"stringify", "other"}) @@
      Required(Text({"source_field"})) @@ Text({"destination_field"}) @@
      ShowIf("operation", {"stringify"}, Off({"pretty"})))

parse_csv == Node("data", AnyPlatform, {"input"}, {}, Ends, {},
  Select("operation", "parse", {"parse", "generate"}) @@
      Required(Text({"source_field"})) @@ Text({"destination_field",
      "delimiter"}) @@ ShowIf("operation", {"parse"}, On({"has_header"})) @@
      ShowIf("operation", {"generate"}, On({"include_header"}) @@
      NoInput({"columns"})))

parse_xml == Node("data", AnyPlatform, {"input"}, {}, Ends, {},
  Select("operation", "parse", {"parse", "generate"}) @@
      Required(Text({"source_field"})) @@ Text({"destination_field"}) @@
      ShowIf("operation", {"parse"}, Text({"attribute_prefix",
      "text_node_name"})) @@ ShowIf("operation", {"generate"},
      Text({"root_element"})))

parse_regex == Node("data", AnyPlatform, {"input"}, {}, {"matched",
    "unmatched", "failure"}, {},
  Required(Text({"source_field"})) @@ Required(Blank({"pattern"})) @@
      Text({"flags"}) @@ Select("output_mode", "groups", {"groups", "other"})
      @@ ShowIf("output_mode", {"groups"}, NoInput({"group_names"})))

parse_template == Node("data", AnyPlatform, {"input"}, {}, {"output",
    "failure"}, {},
  Required(Text({"template"})) @@ Text({"output_field"}) @@ Pick({"syntax"}))

parse_html_extract == Node("data", AnyPlatform, {"input"}, {}, Ends, {},
  Required(Text({"source_field"})) @@ NoInput({"extractions"}))

parse_markdown == Node("data", AnyPlatform, {"input"}, {}, {"output",
    "failure"}, {},
  Pick({"operation"}) @@ Required(Text({"source_field"})) @@
      Text({"destination_field"}))

-----------------------------------------------------------------------------
\* debug-utility.js: Debug / Utility.
debug_log == Node("logic", AnyPlatform, {"input"}, {}, {"output"}, {},
  Pick({"log_level"}) @@ Text({"message"}) @@ On({"log_data"}) @@
      Off({"pause_execution"}) @@ ShowIf("log_data", {"on"},
      Blank({"data_fields"})))

debug_comment == Node("logic", AnyPlatform, {}, {}, {}, {},
  Text({"title"}) @@ Blank({"content"}) @@ Pick({"color"}))

debug_set_variable == Node("logic", AnyPlatform, {"input"}, {}, {"output"},
    {},
  Required(Text({"variable_name"})) @@ Select("value_source", "input_field",
      {"input_field", "static", "expression"}) @@ Pick({"scope"}) @@
      ShowIf("value_source", {"input_field"}, Text({"input_field"})) @@
      ShowIf("value_source", {"static"}, Blank({"static_value"})) @@
      ShowIf("value_source", {"expression"}, Text({"expression"})))

debug_get_variable == Node("logic", AnyPlatform, {"input"}, {}, {"output"},
    {},
  Required(Text({"variable_name"})) @@ Text({"output_field"}) @@
      Blank({"default_value"}))

debug_execution_data == Node("logic", AnyPlatform, {"input"}, {}, {"output"},
    {},
  Pick({"include"}) @@ Text({"output_field"}))

debug_assert == Node("logic", AnyPlatform, {"input"}, {}, {"pass", "fail"},
    {},
  Required(NoInput({"condition"})) @@ Text({"fail_message"}) @@
      Off({"stop_on_fail"}))

-----------------------------------------------------------------------------
\* The packages of packages/index.js.
CorePackage == "trigger:manual" :> trigger_manual
  @@ "trigger:schedule" :> trigger_schedule
  @@ "trigger:webhook" :> trigger_webhook @@ "logic:if" :> logic_if
  @@ "logic:switch" :> logic_switch @@ "logic:loop" :> logic_loop
  @@ "logic:wait" :> logic_wait @@ "logic:merge" :> logic_merge
  @@ "data:set-variable" :> data_set_variable @@ "data:debug" :> data_debug
  @@ "data:transform" :> data_transform

NetworkDiscoveryPackage == "network:ping" :> network_ping
  @@ "network:port-scan" :> network_port_scan
  @@ "network:traceroute" :> network_traceroute
  @@ "network:arp-scan" :> network_arp_scan

SnmpPackage == "snmp:get" :> snmp_get @@ "snmp:walk" :> snmp_walk
  @@ "snmp:set" :> snmp_set

SshPackage == "ssh:command" :> ssh_command @@ "ssh:script" :> ssh_script
  @@ "ssh:scp-download" :> ssh_scp_download
  @@ "ssh:scp-upload" :> ssh_scp_upload

DatabasePackage == "db:insert" :> db_insert @@ "db:update" :> db_update
  @@ "db:upsert" :> db_upsert @@ "db:delete" :> db_delete
  @@ "db:query" :> db_query

NotificationsPackage == "notify:email" :> notify_email
  @@ "notify:slack" :> notify_slack @@ "notify:webhook" :> notify_webhook
  @@ "notify:log" :> notify_log

DataTransformPackage == "transform:set-fields" :> transform_set_fields
  @@ "transform:split" :> transform_split
  @@ "transform:merge" :> transform_merge
  @@ "transform:aggregate" :> transform_aggregate
  @@ "transform:sort" :> transform_sort
  @@ "transform:limit" :> transform_limit
  @@ "transform:filter" :> transform_filter
  @@ "transform:code" :> transform_code
  @@ "transform:remove-duplicates" :> transform_remove_duplicates
  @@ "transform:rename-keys" :> transform_rename_keys

FlowControlPackage == "flow:wait" :> flow_wait @@ "flow:delay" :> flow_delay
  @@ "flow:retry" :> flow_retry @@ "flow:error-trigger" :> flow_error_trigger
  @@ "flow:stop" :> flow_stop @@ "flow:noop" :> flow_noop
  @@ "flow:switch" :> flow_switch @@ "flow:loop" :> flow_loop

HttpApiPackage == "http:request" :> http_request
  @@ "http:webhook-trigger" :> http_webhook_trigger
  @@ "http:respond-webhook" :> http_respond_webhook
  @@ "http:graphql" :> http_graphql

FileStoragePackage == "file:read" :> file_read @@ "file:write" :> file_write
  @@ "file:sftp" :> file_sftp @@ "file:ftp" :> file_ftp
  @@ "file:s3" :> file_s3

SchedulingPackage == "schedule:cron" :> schedule_cron
  @@ "schedule:interval" :> schedule_interval
  @@ "schedule:time-trigger" :> schedule_time_trigger
  @@ "schedule:date-trigger" :> schedule_date_trigger

ParserFormatPackage == "parse:json" :> parse_json @@ "parse:csv" :> parse_csv
  @@ "parse:xml" :> parse_xml @@ "parse:regex" :> parse_regex
  @@ "parse:template" :> parse_template
  @@ "parse:html-extract" :> parse_html_extract
  @@ "parse:markdown" :> parse_markdown

DebugUtilityPackage == "debug:log" :> debug_log
  @@ "debug:comment" :> debug_comment
  @@ "debug:set-variable" :> debug_set_variable
  @@ "debug:get-variable" :> debug_get_variable
  @@ "debug:execution-data" :> debug_execution_data
  @@ "debug:assert" :> debug_assert

PACKAGES == CorePackage @@ NetworkDiscoveryPackage @@ SnmpPackage @@
    SshPackage @@ DatabasePackage @@ NotificationsPackage @@ CienaSaosPackage
    @@ DataTransformPackage @@ FlowControlPackage @@ HttpApiPackage @@
    FileStoragePackage @@ SchedulingPackage @@ ParserFormatPackage @@
    DebugUtilityPackage @@ AxisCamerasPackage @@ WindowsSystemsPackage @@
    NetboxPackage @@ PrtgPackage @@ McpPackage
=============================================================================
