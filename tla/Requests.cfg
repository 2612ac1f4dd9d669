SPECIFICATION PipelineSpec
CONSTANTS
  Ids = {"a", "b"}
  Policy = {"2025-11-25", "2026-07-28"}
  Registry = {"list_directory", "read_file", "get_path_info", "write_file",
              "create_directory", "delete_path", "copy_path", "move_path"}
  Objects <- TriedObjects
INVARIANTS RepliesRight OnlyThroughEveryCheck
CHECK_DEADLOCK FALSE
