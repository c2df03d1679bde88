------------------------------- MODULE RapiApi -------------------------------
(***************************************************************************)
(* The two interfaces of librapi that stand before the backends: the Ce    *)
(* functions of rapi_api.c and the session functions of rapi2_api.c.  Each *)
(* of them tests is_initialized, answers by itself when the context is not *)
(* connected, and calls through rapi_ops when it is; that answer and the   *)
(* type of the returned value are what is kept of a function.              *)
(***************************************************************************)
EXTENDS RapiCalls, TLC

\* How a function answers when the context is not connected: its value, and
\* the errors it sets (Kept when it sets none).
NotConnected(type, value) ==
    [type |-> type, value |-> value,
     rapi_error |-> S_OK, last_error |-> ERROR_NOT_CONNECTED]
Silent(type, value) ==
    [type |-> type, value |-> value, rapi_error |-> Kept, last_error |-> Kept]

BoolCall == NotConnected("BOOL", No)
HandleCall == NotConnected("HANDLE", INVALID)
VoidCall == NotConnected("VOID", 0)
MemoryCall == NotConnected("MEMORY", SYSMEM_FAILED)
RegCall == Silent("LONG", ERROR_NOT_CONNECTED)
HresultCall == Silent("HRESULT", E_UNEXPECTED)

-----------------------------------------------------------------------------
\* The functions of rapi_api.c, on the context of the thread.
CeFileAccess ==
       [c \in {"CeCloseHandle", "CeReadFile", "CeWriteFile",
               "CeSetEndOfFile"} |-> BoolCall]
    @@ [c \in {"CeCreateFile", "CeSetFilePointer"} |-> HandleCall]
CeFileTimes ==
       [c \in {"CeGetFileTime", "CeSetFileTime"} |-> BoolCall]
CeFileSearch ==
       [c \in {"CeCopyFile", "CeCreateDirectory", "CeDeleteFile",
               "CeFindAllFiles", "CeFindNextFile", "CeFindClose"} |-> BoolCall]
    @@ [c \in {"CeFindFirstFile", "CeGetFileAttributes"} |-> HandleCall]
CeFileMoves ==
       [c \in {"CeGetFileSize"} |-> HandleCall]
    @@ [c \in {"CeGetSpecialFolderPath", "CeMoveFile", "CeRemoveDirectory",
               "CeSetFileAttributes", "CeSHCreateShortcut",
               "CeSyncTimeToPc"} |-> BoolCall]
CeDatabases ==
       [c \in {"CeCreateDatabase", "CeDeleteDatabase", "CeFindAllDatabases",
               "CeFindNextDatabase"} |-> BoolCall]
    @@ [c \in {"CeFindFirstDatabase", "CeOpenDatabase"} |-> HandleCall]
CeRecords ==
       [c \in {"CeReadRecordProps", "CeSeekDatabase", "CeWriteRecordProps",
               "CeDeleteRecord", "CeSetDatabaseInfo"} |-> BoolCall]
CeRegistryKeys ==
       [c \in {"CeRegCreateKeyEx", "CeRegOpenKeyEx", "CeRegCloseKey",
               "CeRegDeleteKey", "CeRegDeleteValue"} |-> RegCall]
    @@ [c \in {"CeGetDiskFreeSpaceEx"} |-> BoolCall]
CeRegistryValues ==
       [c \in {"CeRegQueryInfoKey", "CeRegQueryValueEx", "CeRegEnumValue",
               "CeRegEnumKeyEx", "CeRegSetValueEx"} |-> RegCall]
CeMachine ==
       [c \in {"CeCheckPassword", "CeCreateProcess", "CeGetStoreInformation",
               "CeGetSystemPowerStatusEx", "CeGetVersionEx",
               "CeOidGetInfo"} |-> BoolCall]
    @@ [c \in {"CeGetSystemInfo"} |-> VoidCall]
    @@ [c \in {"CeProcessConfig"} |-> HresultCall]
CeReplication ==
       [c \in {"CeStartReplication", "CeGetSystemMemoryDivision",
               "CeRegCopyFile", "CeRegRestoreFile",
               "CeKillAllApps"} |-> BoolCall]
    @@ [c \in {"CeSyncStart", "CeSyncResume", "CeSyncPause"} |-> HresultCall]
    @@ [c \in {"CeSetSystemMemoryDivision"} |-> MemoryCall]
CeInvoke ==
       [c \in {"CeRapiInvoke"} |-> HresultCall]
CeFunctions ==
    CeFileAccess @@ CeFileTimes @@ CeFileSearch @@ CeFileMoves
    @@ CeDatabases @@ CeRecords @@ CeRegistryKeys @@ CeRegistryValues
    @@ CeMachine @@ CeReplication @@ CeInvoke

-----------------------------------------------------------------------------
\* The functions of rapi2_api.c, on the context of the session.
SessionFileAccess ==
       [c \in {"CeCloseHandle", "CeReadFile", "CeWriteFile",
               "CeSetEndOfFile"} |-> BoolCall]
    @@ [c \in {"CeCreateFile", "CeSetFilePointer"} |-> HandleCall]
SessionFileTimes ==
       [c \in {"CeGetFileTime", "CeSetFileTime"} |-> BoolCall]
SessionFileSearch ==
       [c \in {"CeCopyFile", "CeCreateDirectory", "CeDeleteFile",
               "CeFindAllFiles", "CeFindNextFile", "CeFindClose"} |-> BoolCall]
    @@ [c \in {"CeFindFirstFile", "CeGetFileAttributes"} |-> HandleCall]
SessionFileMoves ==
       [c \in {"CeGetFileSize"} |-> HandleCall]
    @@ [c \in {"CeGetSpecialFolderPath", "CeMoveFile", "CeRemoveDirectory",
               "CeSetFileAttributes", "CeSHCreateShortcut",
               "CeSyncTimeToPc"} |-> BoolCall]
SessionDatabases ==
       [c \in {"CeCreateDatabase", "CeDeleteDatabase", "CeFindAllDatabases",
               "CeFindNextDatabase"} |-> BoolCall]
    @@ [c \in {"CeFindFirstDatabase", "CeOpenDatabase"} |-> HandleCall]
SessionRecords ==
       [c \in {"CeReadRecordProps", "CeSeekDatabase", "CeWriteRecordProps",
               "CeDeleteRecord", "CeSetDatabaseInfo"} |-> BoolCall]
SessionRegistryKeys ==
       [c \in {"CeRegCreateKeyEx", "CeRegOpenKeyEx", "CeRegCloseKey",
               "CeRegDeleteKey", "CeRegDeleteValue"} |-> RegCall]
    @@ [c \in {"CeGetDiskFreeSpaceEx"} |-> BoolCall]
SessionRegistryValues ==
       [c \in {"CeRegQueryInfoKey", "CeRegQueryValueEx", "CeRegEnumValue",
               "CeRegEnumKeyEx", "CeRegSetValueEx"} |-> RegCall]
SessionMachine ==
       [c \in {"CeCheckPassword", "CeCreateProcess", "CeGetStoreInformation",
               "CeGetSystemPowerStatusEx", "CeGetVersionEx",
               "CeOidGetInfo"} |-> BoolCall]
    @@ [c \in {"CeGetSystemInfo"} |-> VoidCall]
    @@ [c \in {"CeProcessConfig"} |-> HresultCall]
SessionReplication ==
       [c \in {"CeStartReplication", "CeGetSystemMemoryDivision",
               "CeRegCopyFile", "CeRegRestoreFile",
               "CeKillAllApps"} |-> BoolCall]
    @@ [c \in {"CeSyncStart", "CeSyncResume", "CeSyncPause"} |-> HresultCall]
    @@ [c \in {"CeSetSystemMemoryDivision"} |-> MemoryCall]
SessionInvoke ==
       [c \in {"CeRapiInvoke"} |-> HresultCall]
SessionFunctions ==
    SessionFileAccess @@ SessionFileTimes @@ SessionFileSearch @@ SessionFileMoves
    @@ SessionDatabases @@ SessionRecords @@ SessionRegistryKeys @@ SessionRegistryValues
    @@ SessionMachine @@ SessionReplication @@ SessionInvoke
=============================================================================
