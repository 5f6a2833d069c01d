---------------------------- MODULE MCBulkWizard ----------------------------
(* Constants of BulkWizard for TLC: two publishes, one, and two tasks.      *)
EXTENDS BulkWizard, TLC

CONSTANTS r1, r2

TwoPublishes == <<<<"publish">>, <<"publish">>>>
OnePublish == <<<<"publish">>>>
TwoTasks == <<<<"task">>, <<"task">>>>
=============================================================================
