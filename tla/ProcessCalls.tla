---------------------------- MODULE ProcessCalls ----------------------------
(***************************************************************************)
(* The process-level syscalls of rudroid next to the signal table:        *)
(* getpid, getuid and set_tid_address (syscalls/unistd.rs), getrandom     *)
(* (random.rs), sched_getscheduler (sched.rs), prctl (prctl.rs), ioctl    *)
(* (ioctl.rs) and the dispatcher's stubs for clock_gettime and madvise    *)
(* (syscalls/mod.rs), together with the SigAction handlers.  They share   *)
(* the guest buffers of SigAction and the return register X0, which      *)
(* set_return_val writes.                                                  *)
(*                                                                         *)
(* A buffer's contents stay abstract: besides the sigaction records a     *)
(* buffer may hold TidWord, the 4-byte pack_32(process::id()) that        *)
(* set_tid_address stores, or Entropy, bytes read from /dev/urandom.      *)
(***************************************************************************)
EXTENDS SigAction

CONSTANTS
    Room,       \* bytes mapped from each Mapped buffer to the end of its mapping
    Counts,     \* byte counts the guest passes to getrandom
    Pids,       \* pid arguments of sched_getscheduler, as (X0 as u32) as i32
    HostPid,    \* process::id() of the emulator on the host
    TidWord,    \* the contents pack_32(HostPid) gives a buffer
    Entropy,    \* the contents getrandom gives a buffer
    Failed      \* the u64 0xffff_ffff the handlers return on failure

ASSUME Room >= 20 /\ Counts \subseteq Nat /\ Pids \subseteq Int

VARIABLE x0     \* the guest's X0 after the last handler

proc_vars == <<vars, x0>>

\* sys_getpid's constant and core::uid.
GUEST_PID == 1337
UID == 0

\* Emulator::mem_write: uc_mem_write checks the whole range first, so the
\* write happens entirely or not at all; an empty write always succeeds.
WriteFits(b, n) == n = 0 \/ (b \in Mapped /\ n <= Room)

\* The result the host gives sched_getscheduler for a pid: SCHED_OTHER for
\* the caller itself (pid 0); for any other pid the policy of whichever
\* host process has that number, or -1 with ESRCH.
SCHED_OTHER == 0
HostSchedResults(pid) == IF pid = 0 THEN {SCHED_OTHER} ELSE {SCHED_OTHER, -1}

EINVAL == 22

-----------------------------------------------------------------------------
\* sys_getpid returns 1337; sys_getuid returns uid (0).
SysGetpid ==
    /\ status = "running"
    /\ x0' = GUEST_PID
    /\ last' = [sys |-> "getpid", sig |-> Null, act |-> Null, oldact |-> Null]
    /\ UNCHANGED <<sigmap, mem, status>>

SysGetuid ==
    /\ status = "running"
    /\ x0' = UID
    /\ last' = [sys |-> "getuid", sig |-> Null, act |-> Null, oldact |-> Null]
    /\ UNCHANGED <<sigmap, mem, status>>

\* sys_set_tid_address: mem_write(tidptr, pack_32(process::id())), whose
\* result is dropped, then X0 = the host pid.
SysSetTidAddress(b) ==
    /\ status = "running"
    /\ mem' = IF WriteFits(b, 4) THEN [mem EXCEPT ![b] = TidWord] ELSE mem
    /\ x0' = HostPid
    /\ last' = [sys |-> "set_tid_address", sig |-> Null, act |-> b, oldact |-> Null]
    /\ UNCHANGED <<sigmap, status>>

\* Mutant: the result of mem_write is ignored, as sys_read does.
GetrandomResultUnchecked(b, n) == n

\* The X0 of sys_getrandom: count when mem_write succeeded, else 0xffff_ffff.
GetrandomResult(b, n) == IF WriteFits(b, n) THEN n ELSE Failed

\* sys_getrandom: read count bytes of /dev/urandom, mem_write them at buf,
\* and report the write's outcome in X0.
SysGetrandom(b, n) ==
    /\ status = "running"
    /\ mem' = IF WriteFits(b, n) /\ n > 0 THEN [mem EXCEPT ![b] = Entropy] ELSE mem
    /\ x0' = GetrandomResult(b, n)
    /\ last' = [sys |-> "getrandom", sig |-> n, act |-> b, oldact |-> Null]
    /\ UNCHANGED <<sigmap, status>>

\* sys_sched_getscheduler: the argument is cast to u32 and then to i32
\* (pid_s); EINVAL for a negative pid_s, otherwise the host's
\* libc::sched_getscheduler for that pid.
SysSchedGetscheduler(pid) ==
    /\ status = "running"
    /\ IF pid < 0 THEN x0' = EINVAL
       ELSE \E res \in HostSchedResults(pid) : x0' = res
    /\ last' = [sys |-> "sched_getscheduler", sig |-> pid, act |-> Null, oldact |-> Null]
    /\ UNCHANGED <<sigmap, mem, status>>

\* sys_ioctl: libc::ioctl on the host with the guest's arguments, whose
\* result is dropped; X0 = 0xffff_ffff.
SysIoctl ==
    /\ status = "running"
    /\ x0' = Failed
    /\ last' = [sys |-> "ioctl", sig |-> Null, act |-> Null, oldact |-> Null]
    /\ UNCHANGED <<sigmap, mem, status>>

\* prctl, and the dispatcher's empty_syscall_return for clock_gettime and
\* madvise, together with sigaltstack and rt_sigprocmask: X0 = 0.
SysStub(name) == SysAccepted(name) /\ x0' = 0

-----------------------------------------------------------------------------
ProcInit == Init /\ x0 = 0

ProcNext ==
    \/ \E s \in Sigs, a, o \in Ptrs :
          SysRtSigaction(s, a, o) /\ x0' = IF status' = "running" THEN 0 ELSE x0
    \/ \E name \in {"sigaltstack", "rt_sigprocmask", "prctl", "clock_gettime", "madvise"} :
          SysStub(name)
    \/ SysExitGroup /\ UNCHANGED x0
    \/ \E b \in Mapped, r \in Recs : GuestStore(b, r) /\ UNCHANGED x0
    \/ SysGetpid
    \/ SysGetuid
    \/ \E b \in Ptrs : SysSetTidAddress(b)
    \/ \E b \in Ptrs, n \in Counts : SysGetrandom(b, n)
    \/ \E p \in Pids : SysSchedGetscheduler(p)
    \/ SysIoctl

ProcSpec == ProcInit /\ [][ProcNext]_proc_vars

-----------------------------------------------------------------------------
Contents == Recs \cup {Zero, TidWord, Entropy}

ProcTypeOK ==
    /\ DOMAIN sigmap \subseteq Sigs
    /\ \A s \in DOMAIN sigmap : sigmap[s] \in Contents
    /\ mem \in [Mapped -> Contents]
    /\ status \in {"running", "panic", "exited"}
    /\ x0 \in {0, UID, GUEST_PID, HostPid, EINVAL, -1, Failed} \cup Counts

\* Spec section 4.4: getrandom(buf, n) returns n when the n bytes were
\* written to the guest buffer and reports failure otherwise.  The count
\* in X0 and the buffer's contents must agree: the guest uses the count to
\* decide whether its buffer holds entropy, whatever the buffer held from
\* earlier sigaction, set_tid_address or guest stores.
GetrandomDeliversOrFails ==
    [][ last'.sys = "getrandom" /\ last'.sig > 0
        => \/ /\ x0' = last'.sig
              /\ last'.act \in Mapped
              /\ mem'[last'.act] = Entropy
           \/ /\ x0' = Failed
              /\ mem' = mem ]_proc_vars
=============================================================================
