------------------------------ MODULE RapiOps2 ------------------------------
(***************************************************************************)
(* What the functions of backend_ops_2 do with the mould of RapiCalls: the  *)
(* devices since Windows Mobile 5, whose replies have no header.           *)
(***************************************************************************)
EXTENDS RapiCalls

-----------------------------------------------------------------------------
\* Databases (database2.c).
NotImplementedCeCreateDatabase2 == NotImplemented(No)
NotImplementedCeDeleteDatabase2 == NotImplemented(No)
NotImplementedCeFindAllDatabases2 == NotImplemented(No)
NotImplementedCeFindFirstDatabase2 == NotImplemented(INVALID)
NotImplementedCeFindNextDatabase2 == NotImplemented(No)
NotImplementedCeOpenDatabase2 == NotImplemented(INVALID)
NotImplementedCeReadRecordProps2 == NotImplemented(No)
NotImplementedCeWriteRecordProps2 == NotImplemented(No)
NotImplementedCeSeekDatabase2 == NotImplemented(No)
NotImplementedCeDeleteRecord2 == NotImplemented(No)
NotImplementedCeSetDatabaseInfo2 == NotImplemented(No)

-----------------------------------------------------------------------------
\* Files (file_access2.c).
CeCreateFile2 == Rapi2(\h16, INVALID, INVALID, Plain)
CeReadFile2 ==
    Rapi2(\h17, No, No, <<Must(Err), Must(Ret), Must(Out), Must(Out)>>)
CeWriteFile2 == Rapi2(\h18, No, No, <<Err, Ret, Out>>)
\* A failure returns 0, which is a file pointer.
CeSetFilePointer2 == Rapi2(\h26, 0, 0, <<Err, Ret, Out>>)
\* The only function of this backend that goes through the exchange of the
\* other one, and so takes the first words of the reply for a header.
CeSetEndOfFile2 == Rapi1(\h27, No, No, Plain)
CeGetFileTime2 == Rapi2(\h41, No, No, <<Must(Err), Must(Ret), Out, Out, Out>>)
CeSetFileTime2 == Rapi2(\h42, No, No, Checked)
CeCloseHandle2 == Rapi2(\h19, No, No, Plain)

-----------------------------------------------------------------------------
\* Directories and file names (file_management2.c).
CeGetSpecialFolderPath2 == Rapi2(\h4b, 0, 0, Checked)
\* The number of files is 0 when it was not read, and the call succeeds.
CeFindAllFiles2 == Rapi2(\h1a, No, Yes, <<Err, Out, Out>>)
CeFindFirstFile2 == Rapi2(\h11, INVALID, INVALID, <<Err, Ret, Out>>)
CeFindNextFile2 == Rapi2(\h12, No, No, <<Err, Ret, Out>>)
CeFindClose2 == Rapi2(\h13, No, No, Plain)
CeGetFileAttributes2 == Rapi2(\h14, INVALID, INVALID, Plain)
CeDeleteFile2 == Rapi2(\h2d, No, No, Plain)
CeCreateDirectory2 == Rapi2(\h28, No, No, Plain)
CeRemoveDirectory2 == Rapi2(\h29, No, No, Plain)
CeGetFileSize2 ==
    Rapi2(\h2e, INVALID, INVALID, <<Must(Err), Must(Ret), Must(Out)>>)
CeCopyFile2 == Rapi2(\h2c, No, No, Plain)
CeMoveFile2 == Rapi2(\h2b, No, No, Plain)
NotImplementedCeSetFileAttributes2 == NotImplemented(No)
NotImplementedCeSHCreateShortcut2 == NotImplemented(No)

-----------------------------------------------------------------------------
\* Functions of a library on the device (invoke2.c).
\* (Without a stream.)
CeRapiInvoke2 ==
    Refusing(Rapi2(\h4c, E_FAIL, E_UNEXPECTED,
                   <<Err, Ret, OnSuccess(Out), OnSuccess(Data)>>),
             E_INVALIDARG, Kept, Kept)

-----------------------------------------------------------------------------
\* The device itself (misc2.c).
CeCreateProcess2 == Rapi2(\h2a, No, No, <<Err, Ret, Out>>)
CeGetSystemInfo2 == Rapi2(\h3d, 0, 0, <<Err, Out>>)
CeGetVersionEx2 == Rapi2(\h43, No, No, <<Err, Ret, Out, Data>>)
\* Does not read the last error.
CeGetSystemPowerStatusEx2 == Rapi2(\h49, No, No, <<Ret, Out>>)
CeGetStoreInformation2 == Rapi2(\h39, No, No, <<Err, Ret, Out>>)
NotImplementedCeGetSystemMemoryDivision2 == NotImplemented(No)
\* Returns false, which as an HRESULT is S_OK, when the exchange fails.
CeProcessConfig2 ==
    Refusing(Rapi2(\h0e, No, E_UNEXPECTED, <<Err, Ret, Out, Out>>),
             E_UNEXPECTED, Kept, Kept)
CeStartReplication2 == Rapi2(\h02, No, No, Plain)
\* Returns false, which as an HRESULT is S_OK, when the exchange fails; so
\* do the next two.
CeSyncStart2 == Rapi2(\h59, No, -1, Plain)
CeSyncResume2 == Rapi2(\h10, No, -1, Plain)
CeSyncPause2 == Rapi2(\h0f, No, -1, Plain)
\* TRUE, whatever the device answered.
CeSyncTimeToPc2 == Rapi2(\h01, No, Yes, <<Err>>)
\* Its value when none was read is ERROR_GEN_FAILURE, which is true.
CeGetDiskFreeSpaceEx2 ==
    Refusing(Rapi2(\h5c, No, ERROR_GEN_FAILURE, <<Err, Ret, Out, Out, Out>>),
             No, S_OK, ERROR_INVALID_PARAMETER)
NotImplementedCeRegCopyFile2 == NotImplemented(No)
NotImplementedCeRegRestoreFile2 == NotImplemented(No)
NotImplementedCeKillAllApps2 == NotImplemented(No)
\* Returns FALSE, which is SYSMEM_CHANGED: success.
NotImplementedCeSetSystemMemoryDivision2 == NotImplemented(No)
NotImplementedCeOidGetInfo2 == NotImplemented(No)

-----------------------------------------------------------------------------
\* The password (password2.c).
NotImplementedCeCheckPassword2 == NotImplemented(No)

-----------------------------------------------------------------------------
\* The registry (registry2.c).
CeRegCreateKeyEx2 ==
    Rapi2(\h31, ERROR_GEN_FAILURE, ERROR_GEN_FAILURE, <<Err, Ret, OnSuccess(Out), OnSuccess(Out)>>)
CeRegOpenKeyEx2 ==
    Rapi2(\h2f, ERROR_GEN_FAILURE, ERROR_GEN_FAILURE, <<Err, Ret, OnSuccess(Out)>>)
CeRegQueryValueEx2 ==
    Refusing(Rapi2(\h37, ERROR_GEN_FAILURE, ERROR_GEN_FAILURE, <<Must(Err), Ret, OnSuccess(Out), OnSuccess(Out), OnSuccess(Out)>>),
             ERROR_INVALID_PARAMETER, Kept, Kept)
CeRegCloseKey2 == Rapi2(\h32, ERROR_GEN_FAILURE, ERROR_GEN_FAILURE, Plain)
CeRegDeleteKey2 == Rapi2(\h33, ERROR_GEN_FAILURE, ERROR_GEN_FAILURE, Plain)
CeRegDeleteValue2 == Rapi2(\h35, ERROR_GEN_FAILURE, ERROR_GEN_FAILURE, Plain)
CeRegQueryInfoKey2 ==
    Refusing(Rapi2(\h36, ERROR_GEN_FAILURE, ERROR_GEN_FAILURE, <<Err, Ret, OnSuccess(Out), OnSuccess(Out)>>),
             ERROR_INVALID_PARAMETER, Kept, Kept)
\* Returns false, which as a LONG is ERROR_SUCCESS, when the exchange fails.
CeRegEnumValue2 ==
    Refusing(Rapi2(\h34, No, ERROR_GEN_FAILURE, <<Err, Ret, OnSuccess(Out), OnSuccess(Out)>>),
             ERROR_INVALID_PARAMETER, Kept, Kept)
CeRegEnumKeyEx2 ==
    Refusing(Rapi2(\h30, ERROR_GEN_FAILURE, ERROR_GEN_FAILURE, <<Err, Ret, OnSuccess(Out), OnSuccess(Out)>>),
             ERROR_INVALID_PARAMETER, Kept, Kept)
CeRegSetValueEx2 == Rapi2(\h38, ERROR_GEN_FAILURE, ERROR_GEN_FAILURE, Checked)

-----------------------------------------------------------------------------
\* The table of backend 2.
Rapi2Ops == [
    CeCloseHandle |-> CeCloseHandle2, CeCreateFile |-> CeCreateFile2,
    CeReadFile |-> CeReadFile2, CeWriteFile |-> CeWriteFile2,
    CeSetFilePointer |-> CeSetFilePointer2,
    CeSetEndOfFile |-> CeSetEndOfFile2, CeGetFileTime |-> CeGetFileTime2,
    CeSetFileTime |-> CeSetFileTime2, CeCopyFile |-> CeCopyFile2,
    CeCreateDirectory |-> CeCreateDirectory2, CeDeleteFile |-> CeDeleteFile2,
    CeFindAllFiles |-> CeFindAllFiles2, CeFindFirstFile |-> CeFindFirstFile2,
    CeFindNextFile |-> CeFindNextFile2, CeFindClose |-> CeFindClose2,
    CeGetFileAttributes |-> CeGetFileAttributes2,
    CeGetFileSize |-> CeGetFileSize2,
    CeGetSpecialFolderPath |-> CeGetSpecialFolderPath2,
    CeMoveFile |-> CeMoveFile2, CeRemoveDirectory |-> CeRemoveDirectory2,
    CeSetFileAttributes |-> NotImplementedCeSetFileAttributes2,
    CeSHCreateShortcut |-> NotImplementedCeSHCreateShortcut2,
    CeSyncTimeToPc |-> CeSyncTimeToPc2,
    CeCreateDatabase |-> NotImplementedCeCreateDatabase2,
    CeDeleteDatabase |-> NotImplementedCeDeleteDatabase2,
    CeFindAllDatabases |-> NotImplementedCeFindAllDatabases2,
    CeFindFirstDatabase |-> NotImplementedCeFindFirstDatabase2,
    CeFindNextDatabase |-> NotImplementedCeFindNextDatabase2,
    CeOpenDatabase |-> NotImplementedCeOpenDatabase2,
    CeReadRecordProps |-> NotImplementedCeReadRecordProps2,
    CeSeekDatabase |-> NotImplementedCeSeekDatabase2,
    CeWriteRecordProps |-> NotImplementedCeWriteRecordProps2,
    CeDeleteRecord |-> NotImplementedCeDeleteRecord2,
    CeSetDatabaseInfo |-> NotImplementedCeSetDatabaseInfo2,
    CeRegCreateKeyEx |-> CeRegCreateKeyEx2,
    CeRegOpenKeyEx |-> CeRegOpenKeyEx2, CeRegCloseKey |-> CeRegCloseKey2,
    CeRegDeleteKey |-> CeRegDeleteKey2,
    CeRegDeleteValue |-> CeRegDeleteValue2,
    CeRegQueryInfoKey |-> CeRegQueryInfoKey2,
    CeRegQueryValueEx |-> CeRegQueryValueEx2,
    CeRegEnumValue |-> CeRegEnumValue2, CeRegEnumKeyEx |-> CeRegEnumKeyEx2,
    CeRegSetValueEx |-> CeRegSetValueEx2,
    CeCheckPassword |-> NotImplementedCeCheckPassword2,
    CeCreateProcess |-> CeCreateProcess2,
    CeGetStoreInformation |-> CeGetStoreInformation2,
    CeGetSystemInfo |-> CeGetSystemInfo2,
    CeGetSystemPowerStatusEx |-> CeGetSystemPowerStatusEx2,
    CeGetVersionEx |-> CeGetVersionEx2,
    CeOidGetInfo |-> NotImplementedCeOidGetInfo2,
    CeProcessConfig |-> CeProcessConfig2,
    CeStartReplication |-> CeStartReplication2, CeSyncStart |-> CeSyncStart2,
    CeSyncResume |-> CeSyncResume2, CeSyncPause |-> CeSyncPause2,
    CeGetSystemMemoryDivision |-> NotImplementedCeGetSystemMemoryDivision2,
    CeSetSystemMemoryDivision |-> NotImplementedCeSetSystemMemoryDivision2,
    CeRegCopyFile |-> NotImplementedCeRegCopyFile2,
    CeRegRestoreFile |-> NotImplementedCeRegRestoreFile2,
    CeKillAllApps |-> NotImplementedCeKillAllApps2,
    CeGetDiskFreeSpaceEx |-> CeGetDiskFreeSpaceEx2,
    CeRapiInvoke |-> CeRapiInvoke2 ]
=============================================================================
