-------------------------------- MODULE FileIO --------------------------------
(***************************************************************************)
(* The file I/O and stat syscalls over the guest file table: sys_openat    *)
(* (the AT_FDCWD branch), sys_close, sys_read, sys_pread64 and sys_write   *)
(* (syscalls/unistd.rs, fnctl.rs) with FsScheme::read, pread and write     *)
(* (fs/mod.rs), sys_fstatat, sys_fstat and sys_fstatfs (stat.rs), and      *)
(* sys_readlinkat (unistd.rs).                                             *)
(*                                                                         *)
(* Guest descriptors are host descriptors.  A file's bytes are small       *)
(* integers; the guest passes one buffer whose first BufLen bytes are      *)
(* mapped, so a count above BufLen runs into unmapped memory.  The stat    *)
(* and readlink buffers are kept as what was last written to them.         *)
(***************************************************************************)
EXTENDS Integers, Sequences, FiniteSets, TLC

CONSTANTS
    Paths, Traversal, Present, HostFds, AT_FDCWD, DirFds,  \* as in FsScheme
    FileData,   \* the initial bytes of each present file; a created file is empty
    StdOut,     \* host descriptor 1, open in the host process, not in the table
    BadFd,      \* a descriptor nothing holds open
    BufLen,     \* the mapped bytes of the guest buffer
    Counts,     \* counts the guest passes to read, pread64 and write
    Positions,  \* file positions the guest passes to pread64
    Junk,       \* what the guest buffer holds before any syscall
    MaxFileLen, \* bound: write never grows a file past this length
    ElfPathLen, \* len(self.elf_path)
    FdLinkLen   \* len("/proc/self/fd/N")

ASSUME Junk \notin UNION {{FileData[p][i] : i \in DOMAIN FileData[p]} : p \in Present} \cup {0}

VARIABLES
    open_files, host_fds, host_files,   \* FsScheme and the host, as in FsScheme
    files,      \* the host file behind each guest path: its bytes
    offset,     \* the host file offset of each open host descriptor
    readable,   \* the host descriptors opened for reading
    writable,   \* the host descriptors opened for writing
    buf,        \* the mapped bytes of the guest buffer
    statbuf,    \* what the stat buffer holds: <<kind, path>>
    linkbuf,    \* what the readlink buffer holds: <<kind, x>>
    status,     \* "running" or "panic"
    last        \* the syscall just handled and its return value

fs_vars == <<open_files, host_fds, host_files>>
io_vars == <<files, offset, readable, writable, buf, statbuf, linkbuf>>
vars == <<fs_vars, io_vars, status, last>>

FS == INSTANCE FsScheme

Rec(sys, fd, n1, n2, ret) == [sys |-> sys, fd |-> fd, n1 |-> n1, n2 |-> n2, ret |-> ret]

MinOf(x, y) == IF x < y THEN x ELSE y
MaxOf(x, y) == IF x < y THEN y ELSE x

\* The host file an open host descriptor refers to.
FileOf(fd) == open_files[fd]

-----------------------------------------------------------------------------
(* FsScheme::read and pread, and the engine's guest-memory access.          *)

\* Mutant: the host read starts at the beginning of the file.
HostReadFromStart(fd, off, count) ==
    IF fd \in host_fds /\ fd \in readable
    THEN LET n == MinOf(count, Len(files[FileOf(fd)]))
         IN  [res |-> n, bytes |-> SubSeq(files[FileOf(fd)], 1, n)]
    ELSE [res |-> -1, bytes |-> <<>>]

\* libc::read(fd, buffer, count) at host offset off: the bytes read, or -1
\* (EBADF) for a descriptor not open for reading.
HostRead(fd, off, count) ==
    IF fd \in host_fds /\ fd \in readable
    THEN LET n == MinOf(count, MaxOf(0, Len(files[FileOf(fd)]) - off))
         IN  [res |-> n, bytes |-> SubSeq(files[FileOf(fd)], off + 1, off + n)]
    ELSE [res |-> -1, bytes |-> <<>>]

\* The vec![0u8; count] the handler passes in, after the read filled it.
Filled(bytes, count) == [i \in 1..count |-> IF i <= Len(bytes) THEN bytes[i] ELSE 0]

\* Mutant: the bytes are stored whether or not they fit the mapping.
MemWriteUnchecked(b, data) ==
    [i \in 0..(MaxOf(BufLen, Len(data)) - 1) |->
        IF i < Len(data) THEN data[i + 1] ELSE b[i]]

\* Emulator::mem_write(buf, data): all or nothing; the handlers ignore
\* its Err.
MemWrite(b, data) ==
    IF Len(data) <= BufLen
    THEN [i \in 0..(BufLen - 1) |-> IF i < Len(data) THEN data[i + 1] ELSE b[i]]
    ELSE b

\* FsScheme::write: libc::write puts data over the file's bytes from the
\* host offset off on, growing the file when it runs past the end.
WriteAt(bytes, off, data) ==
    SubSeq(bytes, 1, off) \o data \o SubSeq(bytes, off + Len(data) + 1, Len(bytes))

\* FsScheme::pread: lseek(SEEK_CUR), lseek(offset), read, lseek back to
\* the saved offset; the offset a descriptor is left at.
PreadOffset(fd, pos, res) == offset[fd]

-----------------------------------------------------------------------------
(* The handlers.                                                            *)

\* sys_openat with dirfd AT_FDCWD -> FsScheme::open with the guest flags.
\* A fresh host descriptor starts at offset 0 in the mode it was opened.
SysOpenat(path, rd, wr, creat) ==
    /\ status = "running"
    /\ IF path \in Traversal
       THEN /\ status' = "panic"
            /\ last' = Rec("openat", 0, 0, 0, 0)
            /\ UNCHANGED <<fs_vars, io_vars>>
       ELSE \E fd \in {-1} \cup HostFds :
            /\ FS!Open(path, creat, fd)
            /\ files' = IF fd # -1 /\ path \notin host_files
                        THEN [files EXCEPT ![path] = <<>>] ELSE files
            /\ offset' = IF fd = -1 THEN offset ELSE [offset EXCEPT ![fd] = 0]
            /\ readable' = IF fd # -1 /\ rd THEN readable \cup {fd} ELSE readable \ {fd}
            /\ writable' = IF fd # -1 /\ wr THEN writable \cup {fd} ELSE writable \ {fd}
            /\ last' = Rec("openat", fd, 0, 0, fd)
            /\ UNCHANGED <<buf, statbuf, linkbuf, status>>

\* sys_close -> FsScheme::close.
SysClose(fd) ==
    /\ status = "running"
    /\ FS!Close(fd)
    /\ readable' = readable \ {fd}
    /\ writable' = writable \ {fd}
    /\ last' = Rec("close", fd, 0, 0, 0)
    /\ UNCHANGED <<files, offset, buf, statbuf, linkbuf, status>>

\* sys_read: FsScheme::read wraps the host result in Ok, so the whole
\* count-byte vector (zeros past what was read, all zeros on -1) is
\* written to the guest buffer, and the result is returned.
ReadEffect(sys, fd, count) ==
    LET r == HostRead(fd, IF fd \in HostFds THEN offset[fd] ELSE 0, count)
    IN  /\ offset' = IF r.res > 0 THEN [offset EXCEPT ![fd] = @ + r.res] ELSE offset
        /\ buf' = MemWrite(buf, Filled(r.bytes, count))
        /\ last' = Rec(sys, fd, count, 0, r.res)

SysRead(fd, count) ==
    /\ status = "running"
    /\ ReadEffect("read", fd, count)
    /\ UNCHANGED <<fs_vars, files, readable, writable, statbuf, linkbuf, status>>

\* sys_pread64: for pos != 0 FsScheme::pread reads into a host vector that
\* is never copied to the guest; for pos == 0 it is sys_read.
SysPread64(fd, count, pos) ==
    /\ status = "running"
    /\ IF pos # 0
       THEN LET r == HostRead(fd, pos, count)
            IN  /\ offset' = IF fd \in host_fds
                             THEN [offset EXCEPT ![fd] = PreadOffset(fd, pos, r.res)]
                             ELSE offset
                /\ last' = Rec("pread64", fd, count, pos, r.res)
                /\ UNCHANGED buf
       ELSE ReadEffect("pread64", fd, count)
    /\ UNCHANGED <<fs_vars, files, readable, writable, statbuf, linkbuf, status>>

\* sys_write: mem_read_as_vec(buf, count).unwrap(), then libc::write at
\* the host offset.  StdOut takes everything.
SysWrite(fd, count) ==
    LET data == [i \in 1..count |-> buf[i - 1]]
        f    == FileOf(fd)
        ok   == fd \in host_fds /\ fd \in writable
    IN
    /\ status = "running"
    /\ ok => offset[fd] + count <= MaxFileLen
    /\ IF count > BufLen
       THEN /\ status' = "panic"
            /\ last' = Rec("write", fd, count, 0, 0)
            /\ UNCHANGED <<fs_vars, io_vars>>
       ELSE /\ files' = IF ok
                        THEN [files EXCEPT ![f] = WriteAt(@, offset[fd], data)]
                        ELSE files
            /\ offset' = IF ok THEN [offset EXCEPT ![fd] = @ + count] ELSE offset
            /\ last' = Rec("write", fd, count, 0,
                           IF ok \/ fd = StdOut THEN count ELSE -1)
            /\ UNCHANGED <<fs_vars, readable, writable, buf, statbuf, linkbuf, status>>

\* sys_fstatat: the translated path is checked with Path::exists; an
\* existing one is fstatat'ed and the stat record written (the write's
\* error ignored), else X0 = 0xffff_ffff and the buffer is left alone.
SysFstatat(path, mapped) ==
    /\ status = "running"
    /\ IF path \in host_files
       THEN /\ statbuf' = IF mapped THEN <<1, path>> ELSE statbuf
            /\ last' = Rec("fstatat", 0, 0, 0, 0)
       ELSE /\ last' = Rec("fstatat", 0, 0, 0, -1)
            /\ UNCHANGED statbuf
    /\ UNCHANGED <<fs_vars, files, offset, readable, writable, buf, linkbuf, status>>

\* sys_fstat: fstat(fd).unwrap() panics on a descriptor the host does not
\* hold; otherwise the record is written (error ignored) and 0 returned.
SysFstat(fd, mapped) ==
    /\ status = "running"
    /\ IF fd \notin host_fds \cup {StdOut}
       THEN /\ status' = "panic"
            /\ last' = Rec("fstat", fd, 0, 0, 0)
            /\ UNCHANGED <<fs_vars, io_vars>>
       ELSE /\ statbuf' = IF ~mapped THEN statbuf
                          ELSE IF fd = StdOut THEN <<3, 0>> ELSE <<1, FileOf(fd)>>
            /\ last' = Rec("fstat", fd, 0, 0, 0)
            /\ UNCHANGED <<fs_vars, files, offset, readable, writable, buf, linkbuf, status>>

\* sys_fstatfs writes twelve constant words (error ignored), returns 0.
SysFstatfs(mapped) ==
    /\ status = "running"
    /\ statbuf' = IF mapped THEN <<2, 0>> ELSE statbuf
    /\ last' = Rec("fstatfs", 0, 0, 0, 0)
    /\ UNCHANGED <<fs_vars, files, offset, readable, writable, buf, linkbuf, status>>

\* sys_readlinkat: "/proc/self/exe" gets the ELF path and a NUL, and
\* returns its length; a path containing "/proc/self/fd" gets its own
\* bytes back and one less than their number; anything else returns 0.
SysReadlinkat(q) ==
    /\ status = "running"
    /\ linkbuf' = CASE q.k = "exe" -> <<1, 0>>
                    [] q.k = "fd"  -> <<2, q.n>>
                    [] OTHER       -> linkbuf
    /\ last' = Rec("readlinkat", q.n, 0, 0,
                   CASE q.k = "exe" -> ElfPathLen
                     [] q.k = "fd"  -> FdLinkLen - 1
                     [] OTHER       -> 0)
    /\ UNCHANGED <<fs_vars, files, offset, readable, writable, buf, statbuf, status>>

-----------------------------------------------------------------------------
FdArgs == HostFds \cup {StdOut, BadFd}

LinkQueries ==
    {[k |-> "exe", n |-> 0], [k |-> "other", n |-> 0]} \cup {[k |-> "fd", n |-> fd] : fd \in HostFds}

Init ==
    /\ FS!FsInit
    /\ files = [p \in Paths |-> IF p \in Present THEN FileData[p] ELSE <<>>]
    /\ offset = [fd \in HostFds |-> 0]
    /\ readable = {} /\ writable = {}
    /\ buf = [i \in 0..(BufLen - 1) |-> Junk]
    /\ statbuf = <<0, 0>>
    /\ linkbuf = <<0, 0>>
    /\ status = "running"
    /\ last = Rec("none", 0, 0, 0, 0)

Next ==
    \/ \E p \in Paths, rd, wr, c \in BOOLEAN : (rd \/ wr) /\ SysOpenat(p, rd, wr, c)
    \/ \E fd \in FdArgs : SysClose(fd)
    \/ \E fd \in FdArgs, n \in Counts : SysRead(fd, n)
    \/ \E fd \in FdArgs, n \in Counts, pos \in Positions : SysPread64(fd, n, pos)
    \/ \E fd \in FdArgs, n \in Counts : SysWrite(fd, n)
    \/ \E p \in Paths, m \in BOOLEAN : SysFstatat(p, m)
    \/ \E fd \in FdArgs, m \in BOOLEAN : SysFstat(fd, m)
    \/ \E m \in BOOLEAN : SysFstatfs(m)
    \/ \E q \in LinkQueries : SysReadlinkat(q)

Spec == Init /\ [][Next]_vars

-----------------------------------------------------------------------------
TypeOK ==
    /\ FS!FsTypeOK
    /\ \A p \in Paths : Len(files[p]) <= MaxFileLen
    /\ offset \in [HostFds -> 0..MaxFileLen]
    /\ readable \subseteq host_fds /\ writable \subseteq host_fds
    /\ DOMAIN buf = 0..(BufLen - 1)
    /\ status \in {"running", "panic"}

\* A read-family step that handed the guest ret > 0 bytes.
Delivered == last'.sys \in {"read", "pread64"} /\ last'.ret > 0 /\ status' = "running"

\* The guest buffer holds bytes lo+1 .. lo+n of file f after the step.
BufHolds(f, lo, n) == \A i \in 0..(n - 1) : buf'[i] = files[f][lo + i + 1]

\* sys_read and sys_pread64 at position 0 (unistd.rs 74-115 over
\* FsScheme::read): when the count fits the mapped buffer, the bytes the
\* guest gets are the file's bytes from the descriptor's current host
\* offset, and the offset moves past them, so that consecutive reads, and
\* reads after writes through another descriptor of the same file, see
\* the file in order.
ReadDeliversAtOffset ==
    [][ (Delivered /\ last'.n2 = 0 /\ last'.n1 <= BufLen)
        => LET fd == last'.fd
           IN  /\ BufHolds(FileOf(fd), offset[fd], last'.ret)
               /\ offset'[fd] = offset[fd] + last'.ret ]_vars

\* Spec section 7: an engine API failure aborts.  A read that reports
\* ret > 0 bytes to the guest has put them in the guest buffer; sys_read
\* ignores the Err of mem_write (unistd.rs 88) when the buffer runs into
\* unmapped memory.
ReadDeliversOrAborts ==
    [][ (Delivered /\ last'.n2 = 0)
        => BufHolds(FileOf(last'.fd), offset[last'.fd], last'.ret) ]_vars
=============================================================================
