------------------------------- MODULE Runner -------------------------------
(***************************************************************************)
(* How a run of rudroid proceeds: main.rs calls run_linker, which runs    *)
(* the dynamic linker with emu_start(entry_point, until = elf_entry), and  *)
(* then run_elf, which runs emu_start(elf_entry, until = 0); each run ends *)
(* in handle_emu_exception.  Inside a run the guest stores words and makes *)
(* syscalls; sys_futex (core/android/syscalls/futex.rs) may stop the       *)
(* engine and writes the futex word, and sys_exit_group ends the process. *)
(*                                                                         *)
(* Guest memory is the bytes of two 32-bit words: word A is followed by   *)
(* the mapped word B, and B is the last word of its mapping.  The engine  *)
(* is opened little-endian (Emulator::new), so the guest's own stores are *)
(* little-endian; sys_futex reads and writes through unpack and pack      *)
(* (Codec), in the byte order of the ELF header.                          *)
(***************************************************************************)
EXTENDS Integers, FiniteSets, Bitwise, TLC, Codec

CONSTANTS
    A, B,       \* the two mapped words; A + 4 = B, B + 4 is unmapped
    Unmapped,   \* an address with nothing mapped
    Vals,       \* 32-bit values the guest stores and passes as val
    Ops,        \* futex op arguments the guest passes
    Endian      \* Emulator.endian, from the ELF header

VARIABLES
    phase,          \* "linker", "elf" (the emu_start running), "done", "exited", "panic"
    stop_req,       \* emu_stop was called during the current emu_start
    linker_done,    \* the linker's run ended by reaching elf_entry
    futex_stopped,  \* a FUTEX_WAIT has stopped the engine
    mem,            \* the mapped bytes
    x0,             \* the return register
    last            \* the call just handled

vars == <<phase, stop_req, linker_done, futex_stopped, mem, x0, last>>

Words == {A, B}
Bytes == A..(B + 3)
FUTEX_WAIT == 0
FUTEX_WAKE == 1

\* The engine executes guest code: an emu_start is in progress and no
\* emu_stop has been requested in it.
Running == phase \in {"linker", "elf"} /\ ~stop_req

-----------------------------------------------------------------------------
\* The bytes bs stored from address a on.
StoreBytes(m, a, bs) ==
    [x \in DOMAIN m |-> IF x \in a..(a + Len(bs) - 1) THEN bs[x - a + 1] ELSE m[x]]

\* The 32-bit word at w as the little-endian engine, and so the guest's
\* own loads and stores, see it.
EngineWord(m, w) == LEValue([i \in 1..4 |-> m[w + i - 1]])

\* mem_read_as_vec(uaddr, 4) then unpack: the word at w as sys_futex reads it.
Word(m, w) == Unpack(Endian, [i \in 1..4 |-> m[w + i - 1]])

\* mem_write(uaddr, pack(res)): pack is 8 bytes, so the word after uaddr
\* receives the other half.  uc_mem_write fails as a whole when part of
\* the range is unmapped, and sys_futex ignores the failure.
WritePacked(m, uaddr, res) ==
    IF uaddr + 7 \in Bytes THEN StoreBytes(m, uaddr, Pack(Endian, res)) ELSE m

\* Mutant: the shared flag set unconditionally instead of copied from val.
FutexWordFlagSet(val) == (val & 49152) | 8192

\* The word FUTEX_WAIT writes back: val & 0xc000 | val & 0x2000.
FutexWord(val) == (val & 49152) | (val & 8192)

\* FUTEX_WAIT stops the engine when the word read equals val.
FutexMatch(old, val) == old = val

\* sys_futex: read the word at uaddr (unwrap: panics when unmapped), then
\* dispatch on op & 0x7f.  FUTEX_WAIT calls emu_stop on a match, then in
\* every case writes the derived word and returns 0; FUTEX_WAKE returns 0;
\* any other op writes nothing, so X0 keeps its argument uaddr.
SysFutex(uaddr, op, val) ==
    /\ Running
    /\ last' = [sys |-> "futex", a |-> uaddr, op |-> op, val |-> val]
    /\ IF uaddr \notin Words
       THEN /\ phase' = "panic"
            /\ UNCHANGED <<stop_req, linker_done, futex_stopped, mem, x0>>
       ELSE LET match == FutexMatch(Word(mem, uaddr), val)
            IN
            /\ IF (op & 127) = FUTEX_WAIT
               THEN /\ stop_req' = (stop_req \/ match)
                    /\ futex_stopped' = (futex_stopped \/ match)
                    /\ mem' = WritePacked(mem, uaddr, FutexWord(val))
                    /\ x0' = 0
               ELSE /\ x0' = IF (op & 127) = FUTEX_WAKE THEN 0 ELSE uaddr
                    /\ UNCHANGED <<stop_req, futex_stopped, mem>>
            /\ UNCHANGED <<phase, linker_done>>

\* sys_exit_group: emu_stop, then process::exit(1).
SysExitGroup ==
    /\ Running
    /\ phase' = "exited"
    /\ last' = [sys |-> "exit_group", a |-> 0, op |-> 0, val |-> 0]
    /\ UNCHANGED <<stop_req, linker_done, futex_stopped, mem, x0>>

\* The guest's own code stores a word: a 32-bit little-endian store.
GuestStore(w, v) ==
    /\ Running
    /\ mem' = StoreBytes(mem, w, LEBytes(v, 4))
    /\ last' = [sys |-> "store", a |-> w, op |-> 0, val |-> v]
    /\ UNCHANGED <<phase, stop_req, linker_done, futex_stopped, x0>>

\* The emu_start in progress returns Ok: emu_stop was requested, or the
\* guest reached the run's until address.  handle_emu_exception accepts
\* it; after the linker main calls run_elf, after the ELF main ends.  A
\* new emu_start begins with no stop requested.
EmuStartReturns ==
    /\ phase \in {"linker", "elf"}
    /\ phase' = IF phase = "linker" THEN "elf" ELSE "done"
    /\ linker_done' = (linker_done \/ (phase = "linker" /\ ~stop_req))
    /\ stop_req' = FALSE
    /\ last' = [sys |-> "return", a |-> 0, op |-> 0, val |-> 0]
    /\ UNCHANGED <<futex_stopped, mem, x0>>

\* The emu_start in progress returns an engine error (an unmapped fetch,
\* say): handle_emu_exception dumps the context and panics.
EmuStartFails ==
    /\ Running
    /\ phase' = "panic"
    /\ last' = [sys |-> "fault", a |-> 0, op |-> 0, val |-> 0]
    /\ UNCHANGED <<stop_req, linker_done, futex_stopped, mem, x0>>

\* main after Emulator::new and add_hooks: run_linker starts.
Init ==
    /\ phase = "linker"
    /\ stop_req = FALSE
    /\ linker_done = FALSE
    /\ futex_stopped = FALSE
    /\ mem = [x \in Bytes |-> 0]
    /\ x0 = 0
    /\ last = [sys |-> "none", a |-> 0, op |-> 0, val |-> 0]

Next ==
    \/ \E u \in Words \cup {Unmapped}, op \in Ops, v \in Vals : SysFutex(u, op, v)
    \/ SysExitGroup
    \/ \E w \in Words, v \in Vals : GuestStore(w, v)
    \/ EmuStartReturns
    \/ EmuStartFails

Spec == Init /\ [][Next]_vars

-----------------------------------------------------------------------------
TypeOK ==
    /\ phase \in {"linker", "elf", "done", "exited", "panic"}
    /\ stop_req \in BOOLEAN /\ linker_done \in BOOLEAN /\ futex_stopped \in BOOLEAN
    /\ mem \in [Bytes -> 0..255]
    /\ \A w \in Words : EngineWord(mem, w) \in Vals \cup {0}
    /\ x0 \in {0} \cup Words \cup {Unmapped}

\* Spec section 4.7: a FUTEX_WAIT whose word matches stops the engine and
\* "the single-threaded design treats this as a terminal state": no guest
\* code runs after it.
FutexWaitTerminal ==
    futex_stopped => ~Running

\* Spec section 4.7: FUTEX_WAIT writes (val & 0xc000) | (val & 0x2000)
\* back to the 32-bit word at uaddr, and to nothing else.
FutexWritesOnlyItsWord ==
    [][ (last'.sys = "futex" /\ (last'.op & 127) = FUTEX_WAIT /\ phase' # "panic")
        => /\ EngineWord(mem', last'.a) = FutexWord(last'.val)
           /\ \A w \in Words \ {last'.a} : EngineWord(mem', w) = EngineWord(mem, w) ]_vars
=============================================================================
