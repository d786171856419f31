------------------------------- MODULE FileList -------------------------------
(***************************************************************************)
(* The lists of the file manager (kernel/app.c) and of the file picker     *)
(* (kernel/app_extra.c).  A refresh counts the files of torFS and then     *)
(* asks for them one by one, by position; each call scans the file table   *)
(* without the lock, so files come and go between the calls.               *)
(***************************************************************************)
EXTENDS Integers, Sequences, SequencesExt, FiniteSets, FiniteSetsExt

CONSTANTS FileNames,
          MaxFiles, \* TFS_MAX_FILES, places in the table
          MaxShown  \* FILEMGR_MAX_FILES, FPICK_MAX_FILES

Unused  == "unused"
Garbage == "garbage" \* what the stack holds where a name was not written

VARIABLES files,  \* the file table: place |-> name or Unused
          shown,  \* [names, selected] of the list
          reader, \* [user, used, i] of the refresh that runs; user is "none" when none does
          steady  \* no file came or went since it began (history)

fileListVars == <<files, shown, reader, steady>>

Directory == SelectSeq([i \in 1 .. MaxFiles |-> files[i]], LAMBDA f : f # Unused)

FileListInit == /\ files = [i \in 1 .. MaxFiles |-> Unused]
                /\ shown = [names |-> <<>>, selected |-> 0]
                /\ reader = [user |-> "none", used |-> 0, i |-> 0]
                /\ steady = TRUE

\* tfs_create takes the first free place, tfs_delete frees one.
TfsCreate(name) ==
    /\ name \notin ToSet(files) /\ Unused \in ToSet(files)
    /\ files' = [files EXCEPT ![Min({i \in DOMAIN files : files[i] = Unused})] = name]
    /\ steady' = FALSE /\ UNCHANGED <<shown, reader>>
TfsDelete(name) ==
    /\ name \in ToSet(files)
    /\ files' = [i \in DOMAIN files |-> IF files[i] = name THEN Unused ELSE files[i]]
    /\ steady' = FALSE /\ UNCHANGED <<shown, reader>>

\* filemgr_refresh and file_picker_refresh; the picker keeps what it has selected.
Refresh(user) ==
    /\ reader.user = "none"
    /\ reader' = [user |-> user, used |-> Len(Directory), i |-> 0]
    /\ shown' = [names |-> <<>>, selected |-> IF user = "manager" THEN -1 ELSE shown.selected]
    /\ steady' = TRUE /\ UNCHANGED files

\* tfs_get_used_name: 1 and the name, or 0 and nothing.
GetUsedName(i) == IF i < Len(Directory) THEN [result |-> 1, name |-> Directory[i + 1]]
                  ELSE [result |-> 0, name |-> Garbage]

\* The callers take the name when the result is 0.
Taken(r) == r.result = 0

Fetch ==
    /\ reader.user # "none" /\ reader.i < reader.used /\ Len(shown.names) < MaxShown
    /\ LET r == GetUsedName(reader.i)
       IN  shown' = [shown EXCEPT !.names = IF Taken(r) THEN Append(@, r.name) ELSE @]
    /\ reader' = [reader EXCEPT !.i = @ + 1]
    /\ UNCHANGED <<files, steady>>

\* The manager shows "(empty)" for an empty list.
Finish ==
    /\ reader.user # "none" /\ (reader.i = reader.used \/ Len(shown.names) = MaxShown)
    /\ shown' = IF reader.user = "manager" /\ shown.names = <<>>
                THEN [shown EXCEPT !.names = <<"(empty)">>] ELSE shown
    /\ reader' = [reader EXCEPT !.user = "none"]
    /\ UNCHANGED <<files, steady>>

FilemgrClick(i) == /\ reader.user = "none" /\ i < Len(shown.names)
                   /\ shown' = [shown EXCEPT !.selected = i]
                   /\ UNCHANGED <<files, reader, steady>>

FileListNext == \/ \E name \in FileNames : TfsCreate(name) \/ TfsDelete(name)
                \/ \E user \in {"manager", "picker"} : Refresh(user)
                \/ Fetch \/ Finish
                \/ \E i \in 0 .. MaxShown - 1 : FilemgrClick(i)

FileListSpec == FileListInit /\ [][FileListNext]_fileListVars

(***************************************************************************)
(* Properties                                                              *)
(***************************************************************************)
\* "List files from torFS" (app.c:661): when no file came or went meanwhile, a
\* finished list names the files of the table, as many as there is room for.
\* The code does not do this: it tests the result the wrong way round.
ListsFiles == reader.user = "none" /\ reader.used > 0 /\ steady
              => shown.names = SubSeq(Directory, 1, Min({MaxShown, Len(Directory)}))
=============================================================================
