------------------------------ MODULE SigAction ------------------------------
(***************************************************************************)
(* The signal bookkeeping of core/android/syscalls/signal.rs: the sigmap  *)
(* of the Emulator (core/rudroid.rs) and the handlers rt_sigaction,       *)
(* sigaltstack, rt_sigprocmask and exit_group.                             *)
(*                                                                         *)
(* A sigaction record (20 bytes, five 4-byte words) is a model value of   *)
(* Recs, or Zero for the zeroed record.  Guest memory is the record held   *)
(* at each buffer address the guest passes; two distinct buffers do not   *)
(* share bytes.  Null is the null pointer.                                *)
(***************************************************************************)
EXTENDS Integers, FiniteSets, TLC

CONSTANTS
    Sigs,       \* signal numbers the guest passes
    Recs,       \* sigaction records the guest builds
    Zero,       \* the zeroed 20-byte record (vec![0u8; 20])
    Null,       \* the null pointer
    Mapped,     \* buffer addresses that are mapped in the engine
    Unmapped    \* buffer addresses that are not

ASSUME Zero \notin Recs /\ Null \notin Mapped \cup Unmapped
ASSUME Mapped \cap Unmapped = {}

VARIABLES
    sigmap,     \* Emulator.sigmap: signum -> the stored record
    mem,        \* the record held in each mapped buffer
    status,     \* "running", "panic" after a Rust panic, "exited" after exit_group
    last        \* the syscall just handled and its arguments

vars == <<sigmap, mem, status, last>>

Ptrs == {Null} \cup Mapped \cup Unmapped

-----------------------------------------------------------------------------
\* Mutant: the record for an unset signal is left uninitialised (Null).
PreviousUninit(sm, sig) == IF sig \in DOMAIN sm THEN sm[sig] ELSE Null

\* The record sigaction writes to oldact: the stored one, or a zeroed one.
Previous(sm, sig) == IF sig \in DOMAIN sm THEN sm[sig] ELSE Zero

\* Mutant: act is read and stored before oldact is written.
SigactionEffectSwapped(sig, act, oldact) ==
    LET sm1 == IF act # Null THEN (sig :> mem[act]) @@ sigmap ELSE sigmap
        m1  == IF oldact # Null THEN [mem EXCEPT ![oldact] = Previous(sm1, sig)] ELSE mem
    IN  [sigmap |-> sm1, mem |-> m1]

\* Emulator::sigaction for mapped buffers, in the code's order: when
\* oldact != 0 the previous record is written to *oldact first; then, when
\* act != 0, the five words at act are read and stored for sig.
SigactionEffect(sig, act, oldact) ==
    LET m1  == IF oldact # Null THEN [mem EXCEPT ![oldact] = Previous(sigmap, sig)] ELSE mem
        sm1 == IF act # Null THEN (sig :> m1[act]) @@ sigmap ELSE sigmap
    IN  [sigmap |-> sm1, mem |-> m1]

\* self.write(oldact, ..) expects the write to succeed and mem_read_as_vec
\* unwraps every read of act: a non-null unmapped pointer panics.
SigactionPanics(act, oldact) == act \in Unmapped \/ oldact \in Unmapped

\* sys_rt_sigaction: Emulator::sigaction, then X0 = 0.
SysRtSigaction(sig, act, oldact) ==
    LET eff == SigactionEffect(sig, act, oldact)
    IN
    /\ status = "running"
    /\ last' = [sys |-> "rt_sigaction", sig |-> sig, act |-> act, oldact |-> oldact]
    /\ IF SigactionPanics(act, oldact)
       THEN /\ status' = "panic"
            /\ UNCHANGED <<sigmap, mem>>
       ELSE /\ sigmap' = eff.sigmap
            /\ mem' = eff.mem
            /\ UNCHANGED status

\* sys_sigaltstack and sys_rt_sigprocmask only return 0.
SysAccepted(name) ==
    /\ status = "running"
    /\ last' = [sys |-> name, sig |-> Null, act |-> Null, oldact |-> Null]
    /\ UNCHANGED <<sigmap, mem, status>>

\* sys_exit_group: emu_stop and process::exit(1).
SysExitGroup ==
    /\ status = "running"
    /\ status' = "exited"
    /\ last' = [sys |-> "exit_group", sig |-> Null, act |-> Null, oldact |-> Null]
    /\ UNCHANGED <<sigmap, mem>>

\* The guest's own code fills a buffer with a record.
GuestStore(b, r) ==
    /\ status = "running"
    /\ mem' = [mem EXCEPT ![b] = r]
    /\ last' = [sys |-> "store", sig |-> Null, act |-> b, oldact |-> Null]
    /\ UNCHANGED <<sigmap, status>>

\* Emulator::new starts with an empty sigmap; buffers hold zeros.
Init ==
    /\ sigmap = [s \in {} |-> Zero]
    /\ mem = [b \in Mapped |-> Zero]
    /\ status = "running"
    /\ last = [sys |-> "none", sig |-> Null, act |-> Null, oldact |-> Null]

Next ==
    \/ \E s \in Sigs, a, o \in Ptrs : SysRtSigaction(s, a, o)
    \/ \E name \in {"sigaltstack", "rt_sigprocmask"} : SysAccepted(name)
    \/ SysExitGroup
    \/ \E b \in Mapped, r \in Recs : GuestStore(b, r)

Spec == Init /\ [][Next]_vars

-----------------------------------------------------------------------------
TypeOK ==
    /\ DOMAIN sigmap \subseteq Sigs
    /\ \A s \in DOMAIN sigmap : sigmap[s] \in Recs \cup {Zero}
    /\ mem \in [Mapped -> Recs \cup {Zero}]
    /\ status \in {"running", "panic", "exited"}

\* Spec section 4.5: rt_sigaction(sig, act, oldact) with oldact != 0
\* hands back in *oldact the record stored for sig before the call (zeros
\* if none), whatever earlier calls installed; a query with act == 0
\* leaves the table alone.
OldactReportsPrevious ==
    [][ (last'.sys = "rt_sigaction" /\ status' = "running")
        => /\ last'.oldact # Null => mem'[last'.oldact] = Previous(sigmap, last'.sig)
           /\ last'.act = Null => sigmap' = sigmap ]_vars

\* POSIX, which the spec's rt_sigaction follows: the action installed is the
\* one at act when the call is made, also when the caller passes the same
\* buffer as act and oldact to swap handlers in one call.
ActInstalledFromCaller ==
    [][ (last'.sys = "rt_sigaction" /\ last'.act # Null /\ status' = "running")
        => sigmap'[last'.sig] = mem[last'.act] ]_vars
=============================================================================
