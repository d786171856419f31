----------------------------- MODULE MCServices -----------------------------
(***************************************************************************)
(* The services above the hardware: storage, login, security and the logs. *)
(* They share no state, so a behaviour works one of them: part is chosen   *)
(* at the start.                                                           *)
(***************************************************************************)
EXTENDS Storage, LoginManager, Security, LogRings, TLC

VARIABLE part

storageVars == <<blockVars, vfsVars>>
vars == <<storageVars, loginVars, securityVars, logVars, ringVars, part>>

Init == /\ BlockInit /\ VfsInit /\ LoginInit /\ SecurityInit /\ LogInit /\ RingInit
        /\ part \in {"blocks", "mounts", "files", "login", "contexts", "sandbox", "log", "ring"}

\* Devices that come and hold something new, below the mounts.
Media == \/ \E d \in Devs : BlockRegister(d)
         \/ \E d \in Devs, s \in {0, 1} : BlockWrite(d, s, "boot", TRUE)

Storage == /\ \/ part = "blocks" /\ BlockNext /\ UNCHANGED vfsVars
              \/ part = "mounts" /\ (MountCalls \/ (Media /\ UNCHANGED vfsVars))
              \/ part = "files" /\ DescriptorCalls
           /\ UNCHANGED <<loginVars, securityVars, logVars, ringVars>>

Logins == /\ part = "login" /\ LoginNext
          /\ UNCHANGED <<storageVars, securityVars, logVars, ringVars>>

Securities == /\ \/ part = "contexts" /\ ContextCalls
                 \/ part = "sandbox" /\ SandboxCalls
              /\ UNCHANGED <<storageVars, loginVars, logVars, ringVars>>

Logs == /\ \/ part = "log" /\ LogNext /\ UNCHANGED ringVars
           \/ part = "ring" /\ RingNext /\ UNCHANGED logVars
        /\ UNCHANGED <<storageVars, loginVars, securityVars>>

Next == (Storage \/ Logins \/ Securities \/ Logs) /\ UNCHANGED part

Spec == Init /\ [][Next]_vars

\* Disks are only compared.
Symmetric == Permutations(Devs)

(***************************************************************************)
(* What the constants stand for                                            *)
(***************************************************************************)
Tables(x)    == IF x = "boot" THEN <<1>> ELSE <<>>
Magic(x)     == IF x = "boot" THEN "fat32" ELSE "none"
DefaultCaps(l) == IF l = 0 THEN {"fs", "net", "sys"} ELSE IF l = 1 THEN {"fs", "net"} ELSE {"fs"}
AllOrOne     == {{"x", "y"}, {"x"}}

(***************************************************************************)
(* What the run checks of each service, in one property                    *)
(***************************************************************************)
\* Sectors read as written, the root counted (kernel/fs_advanced.c).
StorageConsistent == ReadsLastWrite /\ RootReferenced
\* No capability from another level, and the last rule decides (kernel/security.c).
Authorised        == CapsWithinLevel /\ HeldToLastRule
\* The last messages, and nothing else, are in the logs, and a writer prints its
\* own (debug_log.c, debug.c).
LogsKeepLast      == LastEntriesReadable /\ PrintsOwnMessage /\ DumpsLast
=============================================================================
