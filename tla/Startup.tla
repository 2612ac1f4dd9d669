------------------------------- MODULE Startup -------------------------------
(***************************************************************************)
(* What a server process makes of its arguments, its environment and the   *)
(* configured root before it serves (cmd/server, internal/config and the   *)
(* constructor of the path guard), and the status it exits with.  Values   *)
(* are classes: "other" is any value the parser does not take.             *)
(***************************************************************************)
EXTENDS Naturals, Sequences, FiniteSets

Environments ==
  [root : {"unset", "blank", "dot", "relative", "absolute"},  \* MCP_ROOT
   readOnly : {"unset", "true", "false", "other"},            \* MCP_READ_ONLY
   cwd : {"unset", "true", "false", "other"},                 \* MCP_ALLOW_CWD_ROOT
   limits : {"unset", "positive", "other"},                   \* the eight numbers
   flags : {"unset", "follow", "other"}]                      \* the four booleans

(* What is at the root's path when the path guard looks. *)
RootStates == {"directory", "missing", "file", "link", "forbidden", "broken"}

Arguments == {"none", "version", "help", "unknown"}
Statuses == 0..3

ReadTools == {"list_directory", "read_file", "get_path_info"}
WriteTools == {"write_file", "create_directory", "delete_path", "copy_path", "move_path"}

ValidRoot_AnyDot(env) == env.root \in {"absolute", "dot"}   \* mutant: the opt-in is not asked for

(* Validate, the last check of LoadFromEnvironment. *)
ValidRoot(env) == env.root = "absolute" \/ (env.root = "dot" /\ env.cwd = "true")

(* The category of the first check that fails, "" if none does. *)
LoadFromEnvironment(env) ==
  IF env.root = "unset" THEN "missing_root"
  ELSE IF env.readOnly = "other" THEN "invalid_profile"
  ELSE IF env.cwd = "other" THEN "invalid_development_option"
  ELSE IF "other" \in {env.limits, env.flags} THEN "startup_failed"
  ELSE IF ~ValidRoot(env) THEN "invalid_root" ELSE ""

(* NewPathGuardWithPolicy and categorizeRootError. *)
OpenRoot(env, root) ==
  IF root = "missing" THEN "root_not_found"
  ELSE IF root = "file" THEN "root_not_directory"
  ELSE IF root = "forbidden" \/ (root = "link" /\ env.flags # "follow") THEN "root_not_allowed"
  ELSE IF root = "broken" THEN "startup_failed" ELSE ""

(* runWithIO until the request loop runs. *)
StartupCategory(env, root) ==
  LET loaded == LoadFromEnvironment(env) IN IF loaded = "" THEN OpenRoot(env, root) ELSE loaded

(* capabilitiesFromReadOnly and createToolRegistry. *)
Tools(env) == IF env.readOnly = "true" THEN ReadTools ELSE ReadTools \cup WriteTools

(* runCLI: what is started, and the status of a run that ends with a       *)
(* category ("" for the end of input).                                     *)
Starts(args) == args = "none"
ExitStatus(args, category) ==
  IF args = "unknown" THEN 2
  ELSE IF args \in {"version", "help"} \/ category = "" THEN 0
  ELSE IF category = "startup_failed" THEN 1 ELSE 3
==============================================================================
