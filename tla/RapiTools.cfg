SPECIFICATION FairSpec
CONSTANTS
    Names = {d1, d2}
    AnyName = AnyName
    Help = Help
    Tools = {"prm", "pmkdir", "prmdir", "pmv", "pshortcut", "psettime", "pkillall", "oidinfo", "rapiconfig", "prun", "pstatus", "list_programs", "database", "pls", "pls_R", "pcat", "pbackup", "pcp_get", "pcp_put", "pcp_copy", "pcp_r_get", "pcp_r_put", "pcp_r_copy", "delete_key", "new_key", "list_key", "list_keys", "dump_registry", "delete_val", "read_val", "write_val"}
    Optimists = {"psettime", "pkillall", "pshortcut"}
    Lenient = {"pshortcut", "pstatus", "list_programs", "database", "pls_R", "pbackup", "pcp_r_get", "pcp_r_put", "pcp_r_copy", "list_keys", "dump_registry"}
    Leaky = {"list_programs", "database", "list_keys", "dump_registry"}
    MaxDevices = 2
    MaxItems = 3
    MaxDepth = 3
INVARIANTS ExitIsTrue ReferencesBalance HandlesClosed
PROPERTY ToolEnds
CHECK_DEADLOCK FALSE
