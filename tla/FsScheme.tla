------------------------------ MODULE FsScheme ------------------------------
(***************************************************************************)
(* The guest file table of src/code/src/core/android/fs/mod.rs (FsScheme) *)
(* together with the part of the host it drives: which host descriptors   *)
(* are open and which translated paths exist under the rootfs.            *)
(*                                                                         *)
(* A guest path is a model value; the rootfs translation of               *)
(* change_path_if_special is abstracted to "the translated path exists on *)
(* the host" (host_files).  Paths in Traversal contain a ".." component.  *)
(***************************************************************************)
EXTENDS Integers, FiniteSets, TLC

CONSTANTS
    Paths,      \* guest-visible paths the guest may pass to open
    Traversal,  \* the paths among them with a ".." component
    Present,    \* the paths whose translated host path exists initially
    HostFds,    \* host descriptor numbers the host may hand out (>= 3)
    AT_FDCWD,   \* the dirfd value that means "relative to cwd" (-100)
    DirFds      \* dirfd values the guest may pass to openat

ASSUME Traversal \subseteq Paths /\ Present \subseteq Paths
ASSUME HostFds \subseteq Nat /\ AT_FDCWD \in Int

VARIABLES
    open_files, \* FsScheme.open_files: host fd -> guest path (a HashMap)
    host_fds,   \* the host descriptors >= 3 that are currently open
    host_files  \* the guest paths whose translated host path exists

fs_vars == <<open_files, host_fds, host_files>>

\* The host's open(2) returns the lowest free descriptor.
LowestFree == CHOOSE fd \in HostFds \ host_fds :
                  \A other \in HostFds \ host_fds : fd <= other

\* The result the host gives OpenOptions::open for a translated path: a
\* fresh descriptor when the file exists (or is created) and one is free.
HostOpenResult(path, creat) ==
    IF (path \in host_files \/ creat) /\ HostFds \ host_fds # {}
    THEN LowestFree
    ELSE -1

\* FsScheme::open (fs/mod.rs 86-109), after check_for_traversal passed:
\* open on the host and, on success, insert the descriptor into the table.
Open(path, creat, fd) ==
    /\ fd = HostOpenResult(path, creat)
    /\ IF fd = -1
       THEN UNCHANGED fs_vars
       ELSE /\ open_files' = (fd :> path) @@ open_files
            /\ host_fds' = host_fds \cup {fd}
            /\ host_files' = host_files \cup {path}

\* FsScheme::openat (fs/mod.rs 111-125) for 0 < dirfd < 256: the path
\* bytes are handed to libc::openat without a terminating NUL, so what the
\* host opens is undefined; the descriptor it returns, -1 included, is
\* inserted into the table unchecked.
OpenAtDirFd(path, fd) ==
    /\ \/ fd = -1
       \/ HostFds \ host_fds # {} /\ fd = LowestFree
    /\ open_files' = (fd :> path) @@ open_files
    /\ host_fds' = IF fd = -1 THEN host_fds ELSE host_fds \cup {fd}
    /\ UNCHANGED host_files

\* FsScheme::close (fs/mod.rs 152-163): close on the host, drop the entry.
Close(fd) ==
    /\ open_files' = [f \in DOMAIN open_files \ {fd} |-> open_files[f]]
    /\ host_fds' = host_fds \ {fd}
    /\ UNCHANGED host_files

\* FsScheme::get_path (fs/mod.rs 218-225): the path of a descriptor, or
\* NoPath for Err(ENOENT).
NoPath == "ENOENT"
GetPath(fd) == IF fd \in DOMAIN open_files THEN open_files[fd] ELSE NoPath

\* The dirfd test of FsScheme::openat: a real descriptor goes to the host's
\* openat, everything else (AT_FDCWD included) to FsScheme::open.
UsesHostDirFd(dirfd) == dirfd > 0 /\ dirfd < 256

FsInit ==
    /\ open_files = [f \in {} |-> NoPath]
    /\ host_fds = {}
    /\ host_files = Present

FsTypeOK ==
    /\ DOMAIN open_files \subseteq HostFds \cup {-1}
    /\ \A f \in DOMAIN open_files : open_files[f] \in Paths
    /\ host_fds \subseteq HostFds
    /\ host_files \subseteq Paths
=============================================================================
