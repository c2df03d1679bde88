------------------------------ MODULE RapiOps1 ------------------------------
(***************************************************************************)
(* What the functions of backend_ops_1 do with the mould of RapiCalls: the  *)
(* devices before Windows Mobile 5.  One definition per function, named    *)
(* after it; the rows differ in the details nobody tests.                  *)
(***************************************************************************)
EXTENDS RapiCalls

-----------------------------------------------------------------------------
\* Databases (database.c).
CeCreateDatabase == Rapi1(\h0d, 0, 0, Checked)
CeDeleteDatabase == Rapi1(\h0f, No, No, Checked)
\* The number of databases is not set when it was not read.
CeFindAllDatabases ==
    Refusing(Rapi1(\h2c, No, Yes, <<Garbage(Out), Must(Out), Out>>),
             No, Kept, ERROR_INVALID_PARAMETER)
CeFindFirstDatabase == Rapi1(\h0a, INVALID, INVALID, Checked)
CeFindNextDatabase == Rapi1(\h0b, 0, 0, Checked)
CeOpenDatabase ==
    Refusing(Rapi1(\h0e, INVALID, INVALID, <<Must(Err), Must(Ret), Out>>),
             INVALID, Kept, ERROR_INVALID_PARAMETER)
\* The caller's buffer is large enough.
CeReadRecordProps ==
    Refusing(Rapi1(\h10, 0, 0, <<Must(Err), Must(Ret), Must(Out), Must(Out), Must(Out)>>),
             0, Kept, ERROR_INVALID_PARAMETER)
\* Refuses values of a type it cannot send.
CeWriteRecordProps == Refusing(Rapi1(\h11, 0, 0, Checked), 0, Kept, Kept)
\* Refuses the seeks by value.
CeSeekDatabase ==
    Refusing(Rapi1(\h13, 0, 0, <<Must(Err), Must(Ret), Must(Out)>>),
             0, Kept, Kept)
CeDeleteRecord == Rapi1(\h12, No, No, Checked)
CeSetDatabaseInfo == Rapi1(\h14, No, No, Checked)

-----------------------------------------------------------------------------
\* Files (file_access.c).
CeCloseHandle == Rapi1(\h08, No, No, Plain)
CeCreateFile == Rapi1(\h05, INVALID, INVALID, Plain)
CeReadFile ==
    Rapi1(\h06, No, No, <<Must(Err), Must(Ret), Must(Out), Must(Out)>>)
CeWriteFile == Rapi1(\h07, No, No, <<Err, Ret, Out>>)
CeSetEndOfFile == Rapi1(\h16, No, No, Plain)
\* A failure returns 0, which is a file pointer; INVALID is what the wrapper
\* returns.
CeSetFilePointer == Rapi1(\h15, 0, 0, Plain)
NotImplementedCeGetFileTime == NotImplemented(No)
NotImplementedCeSetFileTime == NotImplemented(No)

-----------------------------------------------------------------------------
\* Directories and file names (file_management.c).
CeCreateDirectory == Rapi1(\h17, No, No, Plain)
CeDeleteFile == Rapi1(\h1c, No, No, Plain)
\* The number of files is 0 when it was not read, and the call succeeds.
CeFindAllFiles == Rapi1(\h09, No, Yes, <<Out, Out>>)
CeFindFirstFile == Rapi1(\h00, INVALID, INVALID, <<Err, Ret, Out>>)
CeFindNextFile == Rapi1(\h01, No, No, <<Err, Ret, Out>>)
CeFindClose == Rapi1(\h02, No, No, Plain)
CeGetFileSize ==
    Rapi1(\h1d, INVALID, INVALID, <<Must(Err), Must(Ret), Must(Out)>>)
\* The second read is the path; its length is returned.
CeGetSpecialFolderPath == Rapi1(\h44, 0, 0, Checked)
CeCopyFile == Rapi1(\h1b, No, No, Plain)
CeMoveFile == Rapi1(\h1a, No, No, Plain)
CeRemoveDirectory == Rapi1(\h18, No, No, Plain)
CeGetFileAttributes == Rapi1(\h03, INVALID, INVALID, Plain)
CeSetFileAttributes == Rapi1(\h04, No, No, Plain)
CeSHCreateShortcut == Rapi1(\h30, No, No, Plain)

-----------------------------------------------------------------------------
\* Functions of a library on the device (invoke.c).
\* Sends for itself and waits for a second message that it does not read; it
\* neither sets rapi_error nor looks at a header.  (Without a stream.)
CeRapiInvoke ==
    Refusing([Buffers(\h45, E_FAIL, E_UNEXPECTED, <<Out, Err, Ret, Out, Data>>)
                 EXCEPT !.messages = 2], E_INVALIDARG, Kept, Kept)

-----------------------------------------------------------------------------
\* The device itself (misc.c).
CeCreateProcess == Rapi1(\h19, No, No, <<Err, Ret, Out>>)
CeGetStoreInformation == Rapi1(\h29, No, No, <<Err, Ret, Out>>)
CeGetSystemInfo == Rapi1(\h2f, 0, 0, <<Err, Out>>)
CeGetSystemPowerStatusEx == Rapi1(\h41, No, No, <<Err, Ret, Out>>)
CeGetVersionEx == Rapi1(\h3b, No, No, <<Err, Ret, Out, Data>>)
CeOidGetInfo ==
    Refusing(Rapi1(\h0c, No, No, <<Err, Ret, Must(Out), Must(Out)>>),
             No, Kept, Kept)
\* Returns false, which as an HRESULT is S_OK, when the exchange fails.
CeProcessConfig ==
    Refusing(Rapi1(\h56, No, E_UNEXPECTED, <<Ret, Out, Out>>),
             E_UNEXPECTED, Kept, Kept)
CeStartReplication == Rapi1(\h38, No, No, <<Ret>>)
CeGetSystemMemoryDivision == Rapi1(\h28, No, No, <<Err, Ret, Out>>)
CeSetSystemMemoryDivision == Rapi1(\h42, SYSMEM_FAILED, SYSMEM_FAILED, Plain)
CeRegCopyFile == Refusing(Rapi1(\h2d, No, No, Plain), No, Kept, Kept)
CeRegRestoreFile == Refusing(Rapi1(\h2e, No, No, Plain), No, Kept, Kept)
CeKillAllApps == Rapi1(\h49, No, No, Plain)
\* TRUE, whatever the device answered.
CeSyncTimeToPc == Rapi1(\h37, No, Yes, <<Err>>)
NotImplementedCeGetDiskFreeSpaceEx == NotImplemented(No)
NotImplementedCeSyncStart == NotImplemented(E_NOTIMPL)
NotImplementedCeSyncResume == NotImplemented(E_NOTIMPL)
NotImplementedCeSyncPause == NotImplemented(E_NOTIMPL)

-----------------------------------------------------------------------------
\* The password (password.c).
CeCheckPassword == Rapi1(\h34, No, No, Plain)

-----------------------------------------------------------------------------
\* The registry (registry.c).
CeRegCreateKeyEx ==
    Rapi1(\h20, ERROR_GEN_FAILURE, ERROR_GEN_FAILURE, <<Err, Ret, OnSuccess(Out), OnSuccess(Out)>>)
CeRegOpenKeyEx ==
    Rapi1(\h1e, ERROR_GEN_FAILURE, ERROR_GEN_FAILURE, <<Err, Ret, OnSuccess(Out)>>)
CeRegQueryValueEx ==
    Rapi1(\h26, ERROR_GEN_FAILURE, ERROR_GEN_FAILURE, <<Must(Err), Ret, OnSuccess(Out), OnSuccess(Out), OnSuccess(Out)>>)
CeRegCloseKey == Rapi1(\h21, ERROR_GEN_FAILURE, ERROR_GEN_FAILURE, Plain)
CeRegQueryInfoKey ==
    Rapi1(\h25, ERROR_GEN_FAILURE, ERROR_GEN_FAILURE, <<Err, Ret, OnSuccess(Out), OnSuccess(Out)>>)
CeRegEnumValue ==
    Rapi1(\h23, ERROR_GEN_FAILURE, ERROR_GEN_FAILURE, <<Err, Ret, OnSuccess(Out), OnSuccess(Out)>>)
CeRegEnumKeyEx ==
    Rapi1(\h1f, ERROR_GEN_FAILURE, ERROR_GEN_FAILURE, <<Err, Ret, OnSuccess(Out), OnSuccess(Out)>>)
CeRegSetValueEx == Rapi1(\h27, ERROR_GEN_FAILURE, ERROR_GEN_FAILURE, Checked)
CeRegDeleteValue == Rapi1(\h24, ERROR_GEN_FAILURE, ERROR_GEN_FAILURE, Checked)
CeRegDeleteKey == Rapi1(\h22, ERROR_GEN_FAILURE, ERROR_GEN_FAILURE, Checked)

-----------------------------------------------------------------------------
\* The table of backend 1.
RapiOps == [
    CeCloseHandle |-> CeCloseHandle, CeCreateFile |-> CeCreateFile,
    CeReadFile |-> CeReadFile, CeWriteFile |-> CeWriteFile,
    CeSetFilePointer |-> CeSetFilePointer, CeSetEndOfFile |-> CeSetEndOfFile,
    CeGetFileTime |-> NotImplementedCeGetFileTime,
    CeSetFileTime |-> NotImplementedCeSetFileTime, CeCopyFile |-> CeCopyFile,
    CeCreateDirectory |-> CeCreateDirectory, CeDeleteFile |-> CeDeleteFile,
    CeFindAllFiles |-> CeFindAllFiles, CeFindFirstFile |-> CeFindFirstFile,
    CeFindNextFile |-> CeFindNextFile, CeFindClose |-> CeFindClose,
    CeGetFileAttributes |-> CeGetFileAttributes,
    CeGetFileSize |-> CeGetFileSize,
    CeGetSpecialFolderPath |-> CeGetSpecialFolderPath,
    CeMoveFile |-> CeMoveFile, CeRemoveDirectory |-> CeRemoveDirectory,
    CeSetFileAttributes |-> CeSetFileAttributes,
    CeSHCreateShortcut |-> CeSHCreateShortcut,
    CeSyncTimeToPc |-> CeSyncTimeToPc, CeCreateDatabase |-> CeCreateDatabase,
    CeDeleteDatabase |-> CeDeleteDatabase,
    CeFindAllDatabases |-> CeFindAllDatabases,
    CeFindFirstDatabase |-> CeFindFirstDatabase,
    CeFindNextDatabase |-> CeFindNextDatabase,
    CeOpenDatabase |-> CeOpenDatabase,
    CeReadRecordProps |-> CeReadRecordProps,
    CeSeekDatabase |-> CeSeekDatabase,
    CeWriteRecordProps |-> CeWriteRecordProps,
    CeDeleteRecord |-> CeDeleteRecord,
    CeSetDatabaseInfo |-> CeSetDatabaseInfo,
    CeRegCreateKeyEx |-> CeRegCreateKeyEx, CeRegOpenKeyEx |-> CeRegOpenKeyEx,
    CeRegCloseKey |-> CeRegCloseKey, CeRegDeleteKey |-> CeRegDeleteKey,
    CeRegDeleteValue |-> CeRegDeleteValue,
    CeRegQueryInfoKey |-> CeRegQueryInfoKey,
    CeRegQueryValueEx |-> CeRegQueryValueEx,
    CeRegEnumValue |-> CeRegEnumValue, CeRegEnumKeyEx |-> CeRegEnumKeyEx,
    CeRegSetValueEx |-> CeRegSetValueEx, CeCheckPassword |-> CeCheckPassword,
    CeCreateProcess |-> CeCreateProcess,
    CeGetStoreInformation |-> CeGetStoreInformation,
    CeGetSystemInfo |-> CeGetSystemInfo,
    CeGetSystemPowerStatusEx |-> CeGetSystemPowerStatusEx,
    CeGetVersionEx |-> CeGetVersionEx, CeOidGetInfo |-> CeOidGetInfo,
    CeProcessConfig |-> CeProcessConfig,
    CeStartReplication |-> CeStartReplication,
    CeSyncStart |-> NotImplementedCeSyncStart,
    CeSyncResume |-> NotImplementedCeSyncResume,
    CeSyncPause |-> NotImplementedCeSyncPause,
    CeGetSystemMemoryDivision |-> CeGetSystemMemoryDivision,
    CeSetSystemMemoryDivision |-> CeSetSystemMemoryDivision,
    CeRegCopyFile |-> CeRegCopyFile, CeRegRestoreFile |-> CeRegRestoreFile,
    CeKillAllApps |-> CeKillAllApps,
    CeGetDiskFreeSpaceEx |-> NotImplementedCeGetDiskFreeSpaceEx,
    CeRapiInvoke |-> CeRapiInvoke ]
=============================================================================
