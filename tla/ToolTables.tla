------------------------------ MODULE ToolTables ------------------------------
(***************************************************************************)
(* The tables of the built-in tools (pkg/mcp), written by hand in four      *)
(* places for every family: what a getter advertises, with the arguments    *)
(* its schema requires; what the SDK server has a handler for; what the     *)
(* switches of the in-process dispatch know; and what each executor refuses *)
(* to go without. A handler and a case of a switch both call the executor   *)
(* that is named after the tool.                                            *)
(*                                                                         *)
(* Texts, the optional arguments and the types of arguments are left out.   *)
(***************************************************************************)

(* f @@ g of the module TLC, by a definition that a proof can expand. *)
f ++ g == [x \in DOMAIN f \cup DOMAIN g |-> IF x \in DOMAIN f THEN f[x] ELSE g[x]]

-----------------------------------------------------------------------------
(* The getters: tools, and the arguments their schemas require.              *)

getUtilityTools == [
  whois_lookup |-> {"ip_address"}, generate_pdf |-> {"markdown_content", "filename"},
  list_my_tools |-> {}]

getInvestigationTools == [
  match_investigation |-> {"question"}, list_investigations |-> {},
  get_investigation |-> {"name"}]

getLokiQueryTool       == [loki_query |-> {"query", "start"}]
getLokiLabelNamesTool  == [loki_label_names |-> {}]
getLokiLabelValuesTool == [loki_label_values |-> {"label"}]
getLokiTools == getLokiQueryTool ++ getLokiLabelNamesTool ++ getLokiLabelValuesTool

getGitHubTools == [
  github_get_file |-> {"owner", "repo", "path"},
  github_list_directory |-> {"owner", "repo", "path"}, github_search_code |-> {"query"}]

getGitLabTools == [
  gitlab_get_file |-> {"project", "path"}, gitlab_list_directory |-> {"project", "path"},
  gitlab_search_code |-> {"query"}]

getTempoTools == [
  tempo_get_trace |-> {"trace_id"}, tempo_search_traces |-> {"tags"},
  tempo_list_endpoints |-> {}]

getDatabaseTools == [database_query |-> {"query"}, database_list |-> {}]

getK8sTools == [
  k8s_get_resource |-> {"resource_type", "name"}, k8s_list_resources |-> {"resource_type"},
  k8s_pod_logs |-> {"namespace"}, k8s_list_pods |-> {"namespace"}, k8s_get_events |-> {}]

getPrometheusQueryTool      == [prometheus_query |-> {"query"}]
getPrometheusQueryRangeTool == [prometheus_query_range |-> {"query", "start"}]
getPrometheusSeriesAndLabelTools == [
  prometheus_series |-> {"match"}, prometheus_label_values |-> {"label"},
  prometheus_list_endpoints |-> {}]
getPrometheusTools ==
  getPrometheusQueryTool ++ getPrometheusQueryRangeTool ++ getPrometheusSeriesAndLabelTools

getGraphQLTools == [graphql_query |-> {"query"}, graphql_list_endpoints |-> {}]

getECRTools == [ecr_scan_results |-> {"accounts"}]

getSTSTools == [sts_get_caller_identity |-> {}]
getIAMTools == [iam_list_roles |-> {}, iam_get_role |-> {"role_name"}]
getEC2Tools == [
  ec2_describe_vpcs |-> {}, ec2_describe_subnets |-> {},
  ec2_describe_security_groups |-> {}, ec2_describe_nat_gateways |-> {}]
getECSTools == [
  ecs_list_clusters |-> {}, ecs_list_services |-> {"cluster"},
  ecs_describe_services |-> {"cluster", "services"}, ecs_list_tasks |-> {"cluster"},
  ecs_describe_tasks |-> {"cluster", "tasks"},
  ecs_describe_task_definition |-> {"task_definition"}]
getRoute53Tools == [route53_list_hosted_zones |-> {}, route53_list_records |-> {"zone_id"}]
getS3Tools == [s3_list_buckets |-> {}, s3_get_bucket_policy |-> {"bucket"}]
getAWSTools ==
  getSTSTools ++ getIAMTools ++ getEC2Tools ++ getECSTools ++ getRoute53Tools ++ getS3Tools

getCloudWatchTools == [
  cloudwatch_logs_query |-> {"query", "log_groups", "start_time"},
  cloudwatch_logs_list_groups |-> {},
  cloudwatch_logs_get_events |-> {"log_group", "log_stream"}]
cloudWatchMetricsListTool == [cloudwatch_metrics_list |-> {}]
cloudWatchMetricsStatisticsTool ==
  [cloudwatch_metrics_get_statistics |-> {"namespace", "metric_name", "start_time"}]
cloudWatchMetricsQueryTool == [cloudwatch_metrics_query |-> {"queries", "start_time"}]
getCloudWatchMetricsTools ==
  cloudWatchMetricsListTool ++ cloudWatchMetricsStatisticsTool ++ cloudWatchMetricsQueryTool
cloudWatchAlarmsListTool    == [cloudwatch_alarms_list |-> {}]
cloudWatchAlarmsHistoryTool == [cloudwatch_alarms_history |-> {}]
getCloudWatchAlarmsTools == cloudWatchAlarmsListTool ++ cloudWatchAlarmsHistoryTool

getGrafanaReadTools == [
  grafana_list_dashboards |-> {}, grafana_get_dashboard |-> {"uid"},
  grafana_get_dashboard_version |-> {"uid"}]
getGrafanaCreateDashboardTool == [grafana_create_dashboard |-> {"title"}]
getGrafanaPatchDashboardTool  == [grafana_patch_dashboard |-> {"uid"}]
getGrafanaModifyTools == getGrafanaPatchDashboardTool ++ [
  grafana_update_dashboard |-> {"uid", "dashboard"}, grafana_delete_dashboard |-> {"uid"},
  grafana_restore_dashboard_version |-> {"uid", "version"}, grafana_create_folder |-> {"title"}]
getGrafanaWriteTools == getGrafanaCreateDashboardTool ++ getGrafanaModifyTools

-----------------------------------------------------------------------------
(* The handlers of the SDK server. The one of ECR serves what its getter has. *)

registerUtilityTools == {"list_my_tools", "whois_lookup", "generate_pdf"}
registerInvestigationTools ==
  {"get_investigation", "match_investigation", "list_investigations"}
registerLokiTools == {"loki_query", "loki_label_names", "loki_label_values"}
registerGitHubTools == {"github_get_file", "github_list_directory", "github_search_code"}
registerGitLabTools == {"gitlab_get_file", "gitlab_list_directory", "gitlab_search_code"}
registerTempoTools == {"tempo_get_trace", "tempo_search_traces", "tempo_list_endpoints"}
registerDatabaseTools == {"database_query", "database_list"}
registerK8sTools ==
  {"k8s_get_resource", "k8s_list_resources", "k8s_pod_logs", "k8s_list_pods", "k8s_get_events"}
registerPrometheusTools ==
  {"prometheus_query", "prometheus_query_range", "prometheus_series",
   "prometheus_label_values", "prometheus_list_endpoints"}
registerGraphQLTools == {"graphql_query", "graphql_list_endpoints"}
registerECRTools == DOMAIN getECRTools
registerAWSTools ==
  {"sts_get_caller_identity", "iam_list_roles", "iam_get_role", "ec2_describe_vpcs",
   "ec2_describe_subnets", "ec2_describe_security_groups", "ec2_describe_nat_gateways",
   "ecs_list_clusters", "ecs_list_services", "ecs_describe_services", "ecs_list_tasks",
   "ecs_describe_tasks", "ecs_describe_task_definition", "route53_list_hosted_zones",
   "route53_list_records", "s3_list_buckets", "s3_get_bucket_policy"}
registerCloudWatchTools ==
  {"cloudwatch_logs_query", "cloudwatch_logs_list_groups", "cloudwatch_logs_get_events",
   "cloudwatch_metrics_list", "cloudwatch_metrics_get_statistics", "cloudwatch_metrics_query",
   "cloudwatch_alarms_list", "cloudwatch_alarms_history"}
registerGrafanaTools ==
  {"grafana_list_dashboards", "grafana_get_dashboard", "grafana_create_dashboard",
   "grafana_update_dashboard", "grafana_patch_dashboard", "grafana_delete_dashboard",
   "grafana_create_folder", "grafana_get_dashboard_version",
   "grafana_restore_dashboard_version"}

-----------------------------------------------------------------------------
(* The switches, each tried when those before it do not know the tool.        *)

dispatchToolCall ==
  {"list_my_tools", "whois_lookup", "generate_pdf", "github_get_file",
   "github_list_directory", "github_search_code", "ecr_scan_results", "database_query",
   "database_list", "grafana_list_dashboards", "grafana_get_dashboard",
   "grafana_get_dashboard_version", "grafana_restore_dashboard_version",
   "grafana_create_dashboard", "grafana_update_dashboard", "grafana_patch_dashboard",
   "grafana_delete_dashboard", "grafana_create_folder"}
dispatchExtendedToolCall ==
  {"get_investigation", "match_investigation", "list_investigations",
   "cloudwatch_logs_query", "cloudwatch_logs_list_groups", "cloudwatch_logs_get_events",
   "cloudwatch_metrics_list", "cloudwatch_metrics_get_statistics", "cloudwatch_metrics_query",
   "cloudwatch_alarms_list", "cloudwatch_alarms_history", "prometheus_query",
   "prometheus_query_range", "prometheus_series", "prometheus_label_values",
   "prometheus_list_endpoints", "graphql_query", "graphql_list_endpoints",
   "k8s_get_resource", "k8s_list_resources", "k8s_pod_logs", "k8s_list_pods",
   "k8s_get_events"}
dispatchLokiTool == {"loki_query", "loki_label_names", "loki_label_values"}
dispatchGitLabTool == {"gitlab_get_file", "gitlab_list_directory", "gitlab_search_code"}
dispatchTempoTool == {"tempo_get_trace", "tempo_search_traces", "tempo_list_endpoints"}
dispatchAWSTool ==
  {"sts_get_caller_identity", "iam_list_roles", "iam_get_role", "ec2_describe_vpcs",
   "ec2_describe_subnets", "ec2_describe_security_groups", "ec2_describe_nat_gateways",
   "ecs_list_clusters", "ecs_list_services", "ecs_describe_services", "ecs_list_tasks",
   "ecs_describe_tasks", "ecs_describe_task_definition", "route53_list_hosted_zones",
   "route53_list_records", "s3_list_buckets", "s3_get_bucket_policy"}
dispatchAdditionalToolCall ==
  dispatchLokiTool \cup dispatchGitLabTool \cup dispatchTempoTool \cup dispatchAWSTool

Dispatched == dispatchToolCall \cup dispatchExtendedToolCall \cup dispatchAdditionalToolCall

isWriteTool ==
  {"grafana_create_dashboard", "grafana_update_dashboard", "grafana_patch_dashboard",
   "grafana_delete_dashboard", "grafana_create_folder", "grafana_restore_dashboard_version"}

-----------------------------------------------------------------------------
(* The executors, or the parsers they use: what each refuses to go without,   *)
(* before it asks anybody. Those not given take what they get. Left out are arguments of which one of *)
(* several must be given: a pod or a selector, a patch or a merge.            *)

executeWhoisLookup == [whois_lookup |-> {"ip_address"}]
executeGeneratePDF == [generate_pdf |-> {"markdown_content", "filename"}]
executeGetInvestigation == [get_investigation |-> {"name"}]
executeMatchInvestigation == [match_investigation |-> {"question"}]
parseTimeRange == [loki_query |-> {"start"}]
executeLokiLabelValues == [loki_label_values |-> {"label"}]
executeGitLabGetFile == [gitlab_get_file |-> {"project", "path"}]
executeGitLabListDirectory == [gitlab_list_directory |-> {"project"}]
executeGitLabSearchCode == [gitlab_search_code |-> {"query"}]
executeTempoGetTrace == [tempo_get_trace |-> {"trace_id"}]
executeTempoSearchTraces == [tempo_search_traces |-> {"tags"}]
executeDatabaseQuery == [database_query |-> {"query"}]
executePrometheusQuery == [prometheus_query |-> {"query"}]
executePrometheusQueryRange == [prometheus_query_range |-> {"query", "start"}]
parseMatchersArg == [prometheus_series |-> {"match"}]
executePrometheusLabelValues == [prometheus_label_values |-> {"label"}]
executeGraphQLQuery == [graphql_query |-> {"query"}]
parseAccountsArg == [ecr_scan_results |-> {"accounts"}]
executeIAMGetRole == [iam_get_role |-> {"role_name"}]
executeRoute53ListRecords == [route53_list_records |-> {"zone_id"}]
executeS3GetBucketPolicy == [s3_get_bucket_policy |-> {"bucket"}]
executeECSListServices == [ecs_list_services |-> {"cluster"}]
executeECSListTasks == [ecs_list_tasks |-> {"cluster"}]
executeECSDescribeServices == [ecs_describe_services |-> {"cluster", "services"}]
executeECSDescribeTasks == [ecs_describe_tasks |-> {"cluster", "tasks"}]
executeECSDescribeTaskDefinition == [ecs_describe_task_definition |-> {"task_definition"}]
executeCloudWatchLogsQuery == [cloudwatch_logs_query |-> {"query", "log_groups", "start_time"}]
executeCloudWatchLogsGetEvents == [cloudwatch_logs_get_events |-> {"log_group", "log_stream"}]
executeCloudWatchMetricsGetStatistics ==
  [cloudwatch_metrics_get_statistics |-> {"namespace", "metric_name", "start_time"}]
executeCloudWatchMetricsQuery == [cloudwatch_metrics_query |-> {"queries", "start_time"}]
executeGrafanaGetDashboard == [grafana_get_dashboard |-> {"uid"}]
executeGrafanaGetDashboardVersion == [grafana_get_dashboard_version |-> {"uid"}]
executeGrafanaRestoreDashboardVersion ==
  [grafana_restore_dashboard_version |-> {"uid", "version"}]
executeGrafanaCreateDashboard == [grafana_create_dashboard |-> {"title"}]
executeGrafanaUpdateDashboard == [grafana_update_dashboard |-> {"uid", "dashboard"}]
executeGrafanaPatchDashboard == [grafana_patch_dashboard |-> {"uid"}]
executeGrafanaCreateFolder == [grafana_create_folder |-> {"title"}]
executeGrafanaDeleteDashboard == [grafana_delete_dashboard |-> {"uid"}]

Executors ==
  {executeWhoisLookup, executeGeneratePDF, executeGetInvestigation, executeMatchInvestigation,
   parseTimeRange, executeLokiLabelValues, executeGitLabGetFile, executeGitLabListDirectory,
   executeGitLabSearchCode, executeTempoGetTrace, executeTempoSearchTraces,
   executeDatabaseQuery, executePrometheusQuery, executePrometheusQueryRange,
   parseMatchersArg, executePrometheusLabelValues, executeGraphQLQuery, parseAccountsArg,
   executeIAMGetRole, executeRoute53ListRecords, executeS3GetBucketPolicy,
   executeECSListServices, executeECSListTasks, executeECSDescribeServices,
   executeECSDescribeTasks, executeECSDescribeTaskDefinition, executeCloudWatchLogsQuery,
   executeCloudWatchLogsGetEvents, executeCloudWatchMetricsGetStatistics,
   executeCloudWatchMetricsQuery, executeGrafanaGetDashboard,
   executeGrafanaGetDashboardVersion, executeGrafanaRestoreDashboardVersion,
   executeGrafanaCreateDashboard, executeGrafanaUpdateDashboard, executeGrafanaPatchDashboard,
   executeGrafanaCreateFolder, executeGrafanaDeleteDashboard}
=============================================================================
