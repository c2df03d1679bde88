---------------------------- MODULE MCRapiContext ----------------------------
(***************************************************************************)
(* All functions of librapi on one context.                                *)
(***************************************************************************)
EXTENDS RapiContext, RapiApi, RapiOps1, RapiOps2

MCOps == [b \in {1, 2} |-> IF b = 1 THEN RapiOps ELSE Rapi2Ops]
MCFunctions == [a \in {"Ce", "session"} |->
                   IF a = "Ce" THEN CeFunctions ELSE SessionFunctions]
MCNames == DOMAIN CeFunctions

\* Versions before and from the change to rapi 2.  (Of 6.0 the test of the minor
\* number makes a device of rapi 1: nothing that is told can then be trusted.)
MCOsVersions == {<<4, 20>>, <<5, 1>>}

Both(f) == {<<1, f>>, <<2, f>>}

\* The functions whose value looks like success after a failure: they return
\* a false that means success in their type, a pointer that may be 0, a list
\* that may be empty, or nothing at all.
MCUntrusted ==
    UNION {Both(f) : f \in {"CeSetFilePointer", "CeFindAllFiles", "CeSyncTimeToPc",
                            "CeProcessConfig", "CeGetSystemInfo"}}
    \cup {<<0, "CeGetSystemInfo">>, <<1, "CeFindAllDatabases">>}
    \cup {<<2, f>> : f \in {"CeSyncStart", "CeSyncResume", "CeSyncPause",
                            "CeRegEnumValue", "CeSetSystemMemoryDivision",
                            "CeGetDiskFreeSpaceEx"}}

\* They do not read the last error, or refuse arguments without setting one.
MCUnexplained ==
    {<<1, f>> : f \in {"CeStartReplication", "CeOidGetInfo", "CeRegCopyFile",
                       "CeRegRestoreFile", "CeSeekDatabase",
                       "CeWriteRecordProps"}}
    \cup {<<2, "CeGetSystemPowerStatusEx">>}

MCMisread == {<<2, "CeSetEndOfFile">>}
=============================================================================
