----------------------------- MODULE ToolScripts -----------------------------
(***************************************************************************)
(* The command-line tools as scripts of remote calls.  A script maps labels*)
(* to steps; a step says where the tool goes when the call succeeds (ends, *)
(* or more as long as the device has further items), and where when it does*)
(* not (no).  "ok" and "no" end the script, or the function it is in; at   *)
(* "quit" the exit status stays what it was before the session.  A script  *)
(* is a sequence of parts with labels of their own.  A name that does not  *)
(* convert, and takes the tool another way than a failed call, is a choice *)
(* among the labels; local memory is taken to suffice.                     *)
(***************************************************************************)
EXTENDS Naturals, Sequences

Step(call, more, ends, no) ==
    [call |-> call, more |-> more, ends |-> ends, no |-> no, work |-> TRUE]
Must(call, ends, no) == Step(call, {}, ends, no)
Loop(call, more, ends, no) == Step(call, more, ends, no)
\* A question, or a handle closed: the tool does not take a failure for one.
Ask(call, ends, no) == [Step(call, {}, ends, no) EXCEPT !.work = FALSE]
Close(call, then) == Ask(call, then, then)
\* No remote call: a local choice, and the tool's own functions.
Local(more, ends) == Step("none", more, ends, {})
Either(ends) == Local({}, ends)
Sub(f, ok, no) == Step("sub", {ok}, {f}, {no})

Labels(parts) == UNION {DOMAIN parts[i] : i \in DOMAIN parts}
StepAt(parts, l) == parts[CHOOSE i \in DOMAIN parts : l \in DOMAIN parts[i]][l]

-----------------------------------------------------------------------------
(* One call.  A path that is not absolute is put below the folder of the   *)
(* documents, when the device tells it.                                    *)
folders == "CeGetSpecialFolderPath"
OneCall(call) == <<[start |-> Must(call, {"ok"}, {"no"})]>>
adjust_remote_path(call) ==
    <<[start |-> Either({"folder", "call", "no"}),
       folder |-> Ask(folders, {"call"}, {"call"}),
       call |-> Must(call, {"ok"}, {"no"})]>>
adjust_two_paths(call, quit, second) ==
    <<[start |-> Either({"folder", "second", quit}),
       folder |-> Ask(folders, {"second"}, {"second"}),
       second |-> Either({"folder2", "call", quit}),
       folder2 |-> second,
       call |-> Must(call, {"ok"}, {"no"})]>>

\* (Mutant: the answer does not count.)
prmCareless ==
    <<[start |-> Must("CeDeleteFile", {"ok"}, {"ok"})]>>
prm == adjust_remote_path("CeDeleteFile")
pmkdir == adjust_remote_path("CeCreateDirectory")
prmdir == adjust_remote_path("CeRemoveDirectory")
pmv == adjust_two_paths("CeMoveFile", "no", Ask(folders, {"call"}, {"call"}))
\* Without the folder of the second path there is no target to put in quotes.
pshortcut ==
    adjust_two_paths("CeSHCreateShortcut", "quit", Must(folders, {"call"}, {"quit"}))
psettime == OneCall("CeSyncTimeToPc")
pkillall == OneCall("CeKillAllApps")
oidinfo == OneCall("CeOidGetInfo")
rapiconfig == OneCall("CeProcessConfig")
prun ==
    <<[start |-> Must("CeCreateProcess", {"process"}, {"no"}),
       process |-> Close("CeCloseHandle", {"thread"}),
       thread |-> Close("CeCloseHandle", {"ok"})]>>

-----------------------------------------------------------------------------
(* Listings.                                                               *)
pstatus ==
    <<[start |-> Must("CeGetVersionEx", {"system"}, {"system"}),
       system |-> Must("CeGetSystemInfo", {"power"}, {"power"}),
       power |-> Must("CeGetSystemPowerStatusEx", {"store"}, {"store"}),
       store |-> Must("CeGetStoreInformation", {"memory"}, {"memory"}),
       memory |-> Must("CeGetSystemMemoryDivision", {"ok"}, {"ok"})]>>

\* (Mutant: a program whose key does not open is tried again.)
list_programsAgain ==
    <<[start |-> Must("CeRegOpenKeyEx", {"apps", "no"}, {"no"}),
       apps |-> Loop("CeRegEnumKeyEx", {"app"}, {"close"}, {"close"}),
       app |-> Must("CeRegOpenKeyEx", {"closeApp"}, {"app"}),
       closeApp |-> Close("CeRegCloseKey", {"apps"}),
       close |-> Close("CeRegCloseKey", {"ok"})]>>
\* A program whose name does not convert is left with its key open.
list_programs ==
    <<[start |-> Ask("CeRegOpenKeyEx", {"names", "no"}, {"open"}),
       names |-> Loop("CeRegEnumKeyEx", {"names"}, {"close"}, {"close"}),
       open |-> Must("CeRegOpenKeyEx", {"apps", "no"}, {"no"}),
       apps |-> Loop("CeRegEnumKeyEx", {"app"}, {"close"}, {"close"}),
       app |-> Must("CeRegOpenKeyEx", {"installed"}, {"apps"}),
       installed |-> Ask("CeRegQueryValueEx", {"closeApp", "apps"}, {"closeApp"}),
       closeApp |-> Close("CeRegCloseKey", {"apps"}),
       close |-> Close("CeRegCloseKey", {"ok"})]>>

list_databases_by_all == Must("CeFindAllDatabases", {"enumerate"}, {"enumerate"})
list_databases_by_enum ==
    [enumerate |-> Must("CeFindFirstDatabase", {"next"}, {"open"}),
     next |-> Loop("CeFindNextDatabase", {"info"}, {"closeFind"}, {"open"}),
     info |-> Must("CeOidGetInfo", {"next"}, {"open"}),
     closeFind |-> Close("CeCloseHandle", {"open"})]
read_record == Loop("CeReadRecordProps", {"record"}, {"closeDb"}, {"closeDb"})
read_database ==
    [open |-> Must("CeOpenDatabase", {"record"}, {"ok"}),
     record |-> read_record,
     closeDb |-> Close("CeCloseHandle", {"ok"})]
database ==
    <<[start |-> list_databases_by_all],
      list_databases_by_enum,
      read_database>>

\* The first pass may find one directory, which the second lists; each
\* subdirectory is listed like the second pass.
pls(recursive) ==
    <<[start |-> Either({"folder", "find"}),
       folder |-> Must(folders, {"find"}, {"no"}),
       find |-> Must("CeFindAllFiles", {"no", "files", "pass"}, {"no"}),
       pass |-> Either({"folder2", "find2", "no"}),
       folder2 |-> Must(folders, {"find2"}, {"no"}),
       find2 |-> Must("CeFindAllFiles", {"files"}, {"no"}),
       files |-> Local(IF recursive THEN {"subdirectory"} ELSE {}, {"ok"}),
       subdirectory |-> Sub("pass", "files", "files")]>>

-----------------------------------------------------------------------------
(* Files.                                                                  *)

\* (Mutant: the file stays open when a read fails.)
FromDeviceLeaks ==
    [file |-> Must("CeCreateFile", {"read", "drop"}, {"no"}),
     read |-> Loop("CeReadFile", {"read", "drop"}, {"close"}, {"no"}),
     close |-> Close("CeCloseHandle", {"ok"}),
     drop |-> Close("CeCloseHandle", {"no"})]
\* A remote file is read to its end, its local copy may fail at any time.
FromDevice ==
    [file |-> Must("CeCreateFile", {"read", "drop"}, {"no"}),
     read |-> Loop("CeReadFile", {"read", "drop"}, {"close"}, {"drop"}),
     close |-> Close("CeCloseHandle", {"ok"}),
     drop |-> Close("CeCloseHandle", {"no"})]
\* A remote file is written; fewer bytes than asked for are a failure.
ToDevice ==
    [file |-> Either({"create", "no"}),
     create |-> Must("CeCreateFile", {"write", "close", "drop"}, {"no"}),
     write |-> Loop("CeWriteFile", {"write", "drop"}, {"close", "drop"}, {"drop"}),
     close |-> Close("CeCloseHandle", {"ok"}),
     drop |-> Close("CeCloseHandle", {"no"})]
remote_copy == [file |-> Must("CeCopyFile", {"ok"}, {"no"})]
copy_file(from, to) ==
    CASE from = "remote" /\ to = "remote" -> remote_copy
      [] from = "remote" /\ to = "local" -> FromDevice
      [] from = "local" -> ToDevice

pcat ==
    <<[start |-> Either({"file"})],
      FromDevice>>

\* What backup_dir could not read is not missed by main.
backup_dir ==
    [dir |-> Either({"list", "no"}),
     list |-> Must("CeFindAllFiles", {"whole"}, {"ok"}),
     whole |-> Local({"subdir", "entry"}, {"ok"}),
     subdir |-> Sub("dir", "whole", "partial"),
     entry |-> Sub("file", "whole", "partial"),
     partial |-> Local({"subdir2", "entry2"}, {"no"}),
     subdir2 |-> Sub("dir", "partial", "partial"),
     entry2 |-> Sub("file", "partial", "partial")]
pbackup ==
    <<[start |-> Sub("dir", "ok", "ok")],
      backup_dir,
      FromDevice>>

\* does_exist, then is_dir: a file is not copied over another.
Question(side, yes, no) ==
    IF side = "remote" THEN Ask("CeFindFirstFile", yes, no) ELSE Either(yes \cup no)
Answer(side, then) ==
    IF side = "remote" THEN Close("CeFindClose", then) ELSE Either(then)
do_copy(from, to, recursive) ==
    [copy |-> Question(from, {"wasDir", "wasFile"}, {"newFile"}),
     wasDir |-> Answer(from, IF recursive THEN {"newDir"} ELSE {"no"}),
     wasFile |-> Answer(from, {"newFile"}),
     newFile |-> Question(to, {"fileThere"}, {"file"}),
     fileThere |-> Answer(to, {"fileDest"}),
     fileDest |-> Question(to, {"fileInto", "fileOver"}, {"no"}),
     fileInto |-> Answer(to, {"file"}),
     fileOver |-> Answer(to, {"no"}),
     newDir |-> Question(to, {"dirThere"}, {"make"}),
     dirThere |-> Answer(to, {"dirDest"}),
     dirDest |-> Question(to, {"dirInto", "dirOver"}, {"no"}),
     dirInto |-> Answer(to, {"make"}),
     dirOver |-> Answer(to, {"no"}),
     \* (CeCreateDirectory of one that exists is a success too.)
     make |-> IF to = "remote" THEN Must("CeCreateDirectory", {"list"}, {"no"})
              ELSE Either({"list", "no"})]
\* The result is that of the last entry, and failure without entries.
copy_dir(from) ==
    [list |-> IF from = "remote" THEN Must("CeFindAllFiles", {"notCopied"}, {"no"})
              ELSE Either({"notCopied", "no"}),
     notCopied |-> Local({"subdir", "entry"}, {"no"}),
     copied |-> Local({"subdir", "entry"}, {"ok"}),
     subdir |-> Sub("copy", "copied", "notCopied"),
     entry |-> Sub("file", "copied", "notCopied")]
pcp(from, to, recursive) ==
    <<[start |-> IF from = "local" THEN Either({"folder", "copy"}) ELSE Either({"copy"}),
       folder |-> Must(folders, {"copy"}, {"no"})],
      do_copy(from, to, recursive),
      copy_dir(from),
      copy_file(from, to)>>

-----------------------------------------------------------------------------
(* synce-registry.                                                         *)
delete_key == OneCall("CeRegDeleteKey")
new_key ==
    <<[start |-> Must("CeRegCreateKeyEx", {"closeNew"}, {"no"}),
       closeNew |-> Must("CeRegCloseKey", {"ok", "no"}, {"no"})]>>
\* Sizes that did not come are used all the same, and the process may not
\* live through it.  A subkey is never closed.
list_key(recursive) ==
    [listKey |-> Ask("CeRegQueryInfoKey", {"values"}, {"values", "crash"}),
     values |-> Loop("CeRegEnumValue", {"values"}, {"keys"}, {"no"}),
     keys |-> Loop("CeRegEnumKeyEx", IF recursive THEN {"child", "keys"} ELSE {"keys"},
                   {"ok"}, {"no"}),
     child |-> Must("CeRegOpenKeyEx", {"childList"}, {"keys"}),
     childList |-> Sub("listKey", "keys", "keys")]
dump_registry ==
    <<[start |-> Sub("listKey", "user", "no"), user |-> Sub("listKey", "classes", "no"),
       classes |-> Sub("listKey", "ok", "no")],
      list_key(TRUE)>>

\* With a key open, which main closes at the end.
WithKey(then) ==
    [start |-> Must("CeRegOpenKeyEx", then, {"no"}),
     close |-> Close("CeRegCloseKey", {"ok"}),
     drop |-> Close("CeRegCloseKey", {"no"})]
list_tree(recursive) ==
    <<WithKey({"tree"}),
      [tree |-> Sub("listKey", "close", "drop")],
      list_key(recursive)>>
delete_val ==
    <<WithKey({"value", "drop"}),
      [value |-> Must("CeRegDeleteValue", {"close"}, {"drop"})]>>
read_val ==
    <<WithKey({"size", "drop"}),
      [size |-> Must("CeRegQueryValueEx", {"value"}, {"drop"}),
       value |-> Must("CeRegQueryValueEx", {"close"}, {"drop"})]>>
write_val ==
    <<WithKey({"value", "drop"}),
      [value |-> Must("CeRegSetValueEx", {"close"}, {"drop"})]>>

-----------------------------------------------------------------------------
Scripts ==
    [prm |-> prm, pmkdir |-> pmkdir, prmdir |-> prmdir, pmv |-> pmv,
     pshortcut |-> pshortcut, psettime |-> psettime, pkillall |-> pkillall,
     oidinfo |-> oidinfo, rapiconfig |-> rapiconfig, prun |-> prun,
     pstatus |-> pstatus, list_programs |-> list_programs, database |-> database,
     pls |-> pls(FALSE), pls_R |-> pls(TRUE), pcat |-> pcat, pbackup |-> pbackup,
     pcp_get |-> pcp("remote", "local", FALSE), pcp_put |-> pcp("local", "remote", FALSE),
     pcp_copy |-> pcp("remote", "remote", FALSE),
     pcp_r_get |-> pcp("remote", "local", TRUE), pcp_r_put |-> pcp("local", "remote", TRUE),
     pcp_r_copy |-> pcp("remote", "remote", TRUE),
     delete_key |-> delete_key, new_key |-> new_key, list_key |-> list_tree(FALSE),
     list_keys |-> list_tree(TRUE), dump_registry |-> dump_registry,
     delete_val |-> delete_val, read_val |-> read_val, write_val |-> write_val]
=============================================================================
