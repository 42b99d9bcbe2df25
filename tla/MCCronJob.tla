------------------------------- MODULE MCCronJob -------------------------------
(* Model-checking instance of CronJob: two job ids, one target and one     *)
(* message value, one cron expression node-cron accepts and one it         *)
(* rejects.                                                                *)
EXTENDS CronJob

MCCrons == {"c_valid", "c_invalid"}
MCValidCrons == {"c_valid"}
MCTriggers == {"send_message", "send_group_message"}
\* A trigger only an API client can store: POST /api/jobs does not check it.
MCTriggersWithUnknown == MCTriggers \cup {"send_email"}

================================================================================
