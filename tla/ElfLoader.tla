------------------------------ MODULE ElfLoader ------------------------------
(***************************************************************************)
(* Emulator::load and Emulator::load_with_ld (core/loaders/elfLoader.rs):  *)
(* map the [stack], walk the ELF's program headers twice (the extent of    *)
(* the PT_LOAD segments, then map and write each), map the BSS tail, load  *)
(* the dynamic linker named by PT_INTERP, and build the initial stack      *)
(* below the top of the [stack] mapping: the strings copied by copy_str,   *)
(* then the elf_table of argc, the argv and envp pointers, the aux vector  *)
(* and padding, written at the final SP.                                   *)
(*                                                                         *)
(* Guest memory is byte-addressed; an unwritten byte of a fresh mapping    *)
(* is zero and lies outside DOMAIN mem.  A written byte is a triple of     *)
(* integers <<kind, x, i>>:                                                *)
(*   <<1, id, i>>  byte i of the string with identity id,                  *)
(*   <<2, v, i>>   byte i of the 8-byte little-endian pack of v,           *)
(*   <<3, 48, i>>  the i-th padding character '0',                         *)
(*   <<4, 0, o>>   the byte at offset o of the ELF file,                   *)
(*   <<5, 0, o>>   the byte at offset o of the dynamic linker's file.      *)
(* A string is abstracted to its identity and its length.  An ELF is a     *)
(* record of its type, its PT_LOAD headers in program-header order         *)
(* (offset, vaddr, paddr, filesz, memsz), e_phoff, e_entry and whether it  *)
(* has a PT_INTERP.                                                        *)
(***************************************************************************)
EXTENDS Integers, Sequences, SequencesExt, TLC, Engine

CONSTANTS
    StackBase,  \* OS64::stack_address
    Top,        \* stack_address + stack_size, the address copy_str starts below
    LoadBase,   \* OS64::load_address, the base of an ET_DYN image
    InterpBase, \* OS64::interp_address, the base of the dynamic linker
    Images,     \* the ELF files main may be given
    Linker,     \* the dynamic linker found at rootfs + interp_path
    PathLens,   \* lengths of the ELF path (arg0)
    ArgLens,    \* lengths of the other arguments and environment strings
    MaxArgs     \* the most arguments, and environment strings, passed

ASSUME Top % 16 = 0 /\ StackBase % PAGE = 0 /\ Top % PAGE = 0

VARIABLES
    pc,         \* the step of load: "load", "segs", "interp", "isegs",
                \* "arg0", "argv", "envp", "aux", "done"; "abort" after a panic
    image,      \* the ELF being loaded
    regions,    \* the engine's mapped regions
    map_infos,  \* Emulator.map_infos
    load_address, mem_start, mem_end,
    mem_e,      \* the end of the last PT_LOAD mapping made
    seg,        \* the program-header loop index (1-based)
    elf_entry, entry_point, interp_address, brk_address,
    args,       \* self.args: the lengths of the argument strings
    env,        \* self.env: the lengths of the environment strings
    pathlen,    \* the length of self.elf_path
    new_stack,  \* the cursor moving down from Top
    mem,        \* the bytes written to guest memory
    elf_table,  \* the 8-byte words of elf_table, padding aside
    argc,       \* the argv loop counter
    envc        \* the envp loop counter

img_vars == <<image, regions, map_infos, load_address, mem_start, mem_end, mem_e,
              seg, elf_entry, entry_point, interp_address, brk_address>>
stk_vars == <<args, env, pathlen, new_stack, elf_table, argc, envc>>
vars == <<pc, img_vars, stk_vars, mem>>

\* String identities: the path, the AT_RANDOM and AT_PLATFORM strings,
\* argument k and environment string k.
PathId == 1
RandId == 2
PlatId == 3
ArgId(k) == 10 + k
EnvId(k) == 20 + k

\* The bytes of the string id of length n, without a terminator.
Str(id, n) == [i \in 1..n |-> <<1, id, i - 1>>]

\* pack_64: eight little-endian bytes.
Pack(v) == [i \in 1..8 |-> <<2, v, i - 1>>]

\* mem_write(a, data), which self.write expects to succeed.
Write(m, a, data) ==
    LET n == Len(data)
    IN  [x \in DOMAIN m \cup a..(a + n - 1) |->
            IF a <= x /\ x < a + n THEN data[x - a + 1] ELSE m[x]]

-----------------------------------------------------------------------------
\* Mutant: the string is placed one byte too high.
CopyStrOffByOne(address, len) == address - len + 1

\* Mutant: no room left for the NUL after the string.
CopyStrNoNul(address, len) == address - len

\* copy_str (mmu.rs 170-175): the string goes to address - len - 1, so the
\* byte after it, never written, stays zero and terminates it.
CopyStr(address, len) == address - len - 1

\* Mutant: the cursor is not rounded down.
AlignmentNone(address) == address

\* alignment (unicorn/mod.rs 527-536) for AArch64: round down to 8.
Alignment(address) == (address \div 8) * 8

\* The padding: 0x10 - ((new_stack - len(elf_table)) & 0xf) characters.
Padding(ns, tlen) == 16 - ((ns - tlen) % 16)

\* Mutant: AT_PHDR without the image's lowest page.
PhdrAddrNoStart(base, phoff, start) == base + phoff

\* elf_phdr + mem_start: the load address plus e_phoff, plus the aligned
\* lowest vaddr of the PT_LOAD segments.
PhdrAddr(base, phoff, start) == base + phoff + start

\* e_phnum: the PT_LOAD headers and the PT_INTERP one.
PhNum == Len(image.segs) + (IF image.interp THEN 1 ELSE 0)

\* new_aux_ent, in the order of elfLoader.rs 293-309 (keys of enum AUX).
AuxVector(randaddr, cpuaddr) ==
    << 3, PhdrAddr(load_address, image.phoff, mem_start), 4, 56, 5, PhNum,
       6, 4096, 7, interp_address, 8, 0,
       9, elf_entry, 11, 0, 12, 0, 13, 0, 14, 0, 16, 126614525,
       17, 100, 25, randaddr, 15, cpuaddr, 23, 0, 0, 0 >>

-----------------------------------------------------------------------------
(* Loading the images.                                                     *)

\* The filesz bytes of a segment read from the file of kind 4 (the ELF)
\* or 5 (the dynamic linker), starting at file offset off.
FileBytes(kind, s) == [i \in 1..s.f |-> <<kind, 0, s.off + i - 1>>]

\* Mutant: the segment written at the start of its first page.
SegAddrPageStart(base, s) == AlignDown(base + s.v)

\* The segment's bytes are written at load_address + p_vaddr.
SegAddr(base, s) == base + s.v

\* A Rust panic (a failed unwrap or expect) ends the loader.
Abort ==
    /\ pc' = "abort"
    /\ UNCHANGED <<img_vars, stk_vars, mem>>

\* Emulator::load maps the [stack]; load_with_ld picks the load address
\* (0 for ET_EXEC, OS64::load_address for ET_DYN) and its first pass
\* takes the lowest vaddr and the highest vaddr + memsz of the PT_LOAD
\* headers, aligned down and up.  mmap_address is set here too; the arena
\* is GuestMemory's.
Load ==
    LET st == MmuMap({}, <<>>, StackBase, Top - StackBase, "[stack]")
        ls == image.segs
    IN
    /\ pc = "load"
    /\ regions' = st.regs
    /\ map_infos' = st.infos
    /\ load_address' = IF image.type = "exec" THEN 0 ELSE LoadBase
    /\ mem_start' = AlignDown(Min({ls[k].v : k \in DOMAIN ls}))
    /\ mem_end' = AlignUp(Max({ls[k].v + ls[k].m : k \in DOMAIN ls}))
    /\ seg' = 1
    /\ pc' = "segs"
    /\ UNCHANGED <<image, mem_e, elf_entry, entry_point, interp_address,
                   brk_address, stk_vars, mem>>

\* One turn of the second pass: mmu_map [align_down(base + vaddr),
\* align_up(base + vaddr + filesz)), whose mem_map unwrap panics on an
\* overlap, then self.write of the filesz file bytes at base + vaddr,
\* whose expect panics unless they are all mapped.
LoadSegment ==
    LET s  == image.segs[seg]
        ms == AlignDown(load_address + s.v)
        me == AlignUp(load_address + s.v + s.f)
        mp == MmuMap(regions, map_infos, ms, me - ms, "elf")
        at == SegAddr(load_address, s)
    IN
    /\ pc = "segs" /\ seg <= Len(image.segs)
    /\ IF ~mp.ok \/ ~AreaMapped(mp.regs, at, s.f) THEN Abort
       ELSE /\ regions' = mp.regs
            /\ map_infos' = mp.infos
            /\ mem' = Write(mem, at, FileBytes(4, s))
            /\ mem_e' = me
            /\ seg' = seg + 1
            /\ UNCHANGED <<pc, image, load_address, mem_start, mem_end, elf_entry,
                           entry_point, interp_address, brk_address, stk_vars>>

\* After the loop: if base + mem_end lies above the last mapping's end,
\* map [mem_e, base + mem_end) for the BSS; set elf_entry and brk_address
\* (0x2000 is two pages) and go on to the linker, if there is one.
MapTail ==
    LET hi == load_address + mem_end
        mp == IF hi > mem_e THEN MmuMap(regions, map_infos, mem_e, hi - mem_e, "elf")
              ELSE [ok |-> TRUE, regs |-> regions, infos |-> map_infos]
    IN
    /\ pc = "segs" /\ seg > Len(image.segs)
    /\ IF ~mp.ok THEN Abort
       ELSE /\ regions' = mp.regs
            /\ map_infos' = mp.infos
            /\ elf_entry' = image.entry + load_address
            /\ brk_address' = mem_end + load_address + 2 * PAGE
            /\ pc' = IF image.interp THEN "interp" ELSE "arg0"
            /\ UNCHANGED <<image, load_address, mem_start, mem_end, mem_e, seg,
                           entry_point, interp_address, stk_vars, mem>>

\* The linker's image size is align_up of its highest vaddr + memsz; it is
\* mapped whole at OS64::interp_address.
MapInterp ==
    LET ls   == Linker.segs
        size == AlignUp(Max({ls[k].v + ls[k].m : k \in DOMAIN ls}))
        mp   == MmuMap(regions, map_infos, InterpBase, size, "linker")
    IN
    /\ pc = "interp"
    /\ IF ~mp.ok THEN Abort
       ELSE /\ regions' = mp.regs
            /\ map_infos' = mp.infos
            /\ seg' = 1
            /\ pc' = "isegs"
            /\ UNCHANGED <<image, load_address, mem_start, mem_end, mem_e, elf_entry,
                           entry_point, interp_address, brk_address, stk_vars, mem>>

\* One PT_LOAD of the linker written at interp_address + p_paddr.
LoadInterpSegment ==
    LET s  == Linker.segs[seg]
        at == InterpBase + s.p
    IN
    /\ pc = "isegs" /\ seg <= Len(Linker.segs)
    /\ IF ~AreaMapped(regions, at, s.f) THEN Abort
       ELSE /\ mem' = Write(mem, at, FileBytes(5, s))
            /\ seg' = seg + 1
            /\ UNCHANGED <<pc, image, regions, map_infos, load_address, mem_start,
                           mem_end, mem_e, elf_entry, entry_point, interp_address,
                           brk_address, stk_vars>>

\* interp_address and entry_point, the linker's e_entry, are set.
EndInterp ==
    /\ pc = "isegs" /\ seg > Len(Linker.segs)
    /\ interp_address' = InterpBase
    /\ entry_point' = Linker.entry + InterpBase
    /\ pc' = "arg0"
    /\ UNCHANGED <<image, regions, map_infos, load_address, mem_start, mem_end,
                   mem_e, seg, elf_entry, brk_address, stk_vars, mem>>

-----------------------------------------------------------------------------
\* Copy arg0, the ELF path; the table starts with argc and its pointer.
CopyArg0 ==
    LET a == CopyStr(new_stack, pathlen)
    IN
    /\ pc = "arg0"
    /\ new_stack' = a
    /\ mem' = Write(mem, a, Str(PathId, pathlen))
    /\ elf_table' = <<Len(args) + 1, a>>
    /\ argc' = Len(args)
    /\ pc' = "argv"
    /\ UNCHANGED <<img_vars, args, env, pathlen, envc>>

\* One turn of the argv loop: args[argc - 1] (0-based), last to first.
CopyArg ==
    LET a == CopyStr(new_stack, args[argc])
    IN
    /\ pc = "argv" /\ argc > 0
    /\ argc' = argc - 1
    /\ new_stack' = a
    /\ mem' = Write(mem, a, Str(ArgId(argc), args[argc]))
    /\ elf_table' = Append(elf_table, a)
    /\ UNCHANGED <<img_vars, pc, args, env, pathlen, envc>>

\* The argv loop breaks: the 0 terminator, and the envp loop starts.
EndArgv ==
    /\ pc = "argv" /\ argc <= 0
    /\ elf_table' = Append(elf_table, 0)
    /\ envc' = Len(env)
    /\ pc' = "envp"
    /\ UNCHANGED <<img_vars, args, env, pathlen, new_stack, mem, argc>>

\* One turn of the envp loop, last to first.
CopyEnv ==
    LET a == CopyStr(new_stack, env[envc])
    IN
    /\ pc = "envp" /\ envc > 0
    /\ envc' = envc - 1
    /\ new_stack' = a
    /\ mem' = Write(mem, a, Str(EnvId(envc), env[envc]))
    /\ elf_table' = Append(elf_table, a)
    /\ UNCHANGED <<img_vars, pc, args, env, pathlen, argc>>

\* The envp loop breaks: the 0 terminator.
EndEnvp ==
    /\ pc = "envp" /\ envc <= 0
    /\ elf_table' = Append(elf_table, 0)
    /\ pc' = "aux"
    /\ UNCHANGED <<img_vars, args, env, pathlen, new_stack, mem, argc, envc>>

\* elfLoader.rs 259-322: align, copy the 16 random bytes and "aarch64",
\* align, append the aux vector and the padding, write the whole table
\* at new_stack - len and make that the new stack.
SeedAux ==
    LET ns0   == Alignment(new_stack)
        addr1 == CopyStr(ns0, 16)
        addr2 == CopyStr(addr1, 7)
        ns1   == Alignment(addr2)
        tbl   == elf_table \o AuxVector(addr1, addr2)
        pad   == Padding(ns1, 8 * Len(tbl))
        words == 8 * Len(tbl)
        bytes == [j \in 1..(words + pad) |->
                    IF j <= words THEN Pack(tbl[(j - 1) \div 8 + 1])[((j - 1) % 8) + 1]
                    ELSE <<3, 48, j - words - 1>>]
        m1    == Write(Write(mem, addr1, Str(RandId, 16)), addr2, Str(PlatId, 7))
    IN
    /\ pc = "aux"
    /\ mem' = Write(m1, ns1 - Len(bytes), bytes)
    /\ new_stack' = ns1 - Len(bytes)
    /\ elf_table' = tbl
    /\ pc' = "done"
    /\ UNCHANGED <<img_vars, args, env, pathlen, argc, envc>>

\* Emulator::new hands load the ELF, its argument and environment vectors
\* and the ELF path; nothing is mapped yet.
Init ==
    /\ pc = "load"
    /\ image \in Images
    /\ regions = {}
    /\ map_infos = <<>>
    /\ load_address = 0 /\ mem_start = 0 /\ mem_end = 0 /\ mem_e = 0 /\ seg = 0
    /\ elf_entry = 0 /\ entry_point = 0 /\ interp_address = 0 /\ brk_address = 0
    /\ args \in BoundedSeq(ArgLens, MaxArgs)
    /\ env \in BoundedSeq(ArgLens, MaxArgs)
    /\ pathlen \in PathLens
    /\ new_stack = Top
    /\ mem = [x \in {} |-> <<0, 0, 0>>]
    /\ elf_table = <<>>
    /\ argc = 0
    /\ envc = 0

\* The loader ends after SeedAux, or at a panic; the guest's run is Runner's.
Next ==
    \/ Load \/ LoadSegment \/ MapTail \/ MapInterp \/ LoadInterpSegment \/ EndInterp
    \/ CopyArg0 \/ CopyArg \/ EndArgv \/ CopyEnv \/ EndEnvp \/ SeedAux

Spec == Init /\ [][Next]_vars

-----------------------------------------------------------------------------
StackSteps == {"arg0", "argv", "envp", "aux", "done"}

\* The strings and the table land in the [stack] mapping [StackBase, Top)
\* (0x30000 bytes in the code, far more than is written).
TypeOK ==
    /\ pc \in {"load", "segs", "interp", "isegs", "abort"} \cup StackSteps
    /\ image \in Images
    /\ args \in BoundedSeq(ArgLens, MaxArgs) /\ env \in BoundedSeq(ArgLens, MaxArgs)
    /\ argc \in 0..MaxArgs /\ envc \in 0..MaxArgs
    /\ new_stack \in StackBase..Top
    /\ \A x \in DOMAIN mem : mem[x][1] \in 1..5
    /\ \A x \in DOMAIN mem : mem[x][1] \in 1..3 => x \in StackBase..(Top - 1)

\* The 8-byte word at address a, or -1 when the bytes there are not the
\* pack of one value.
ReadWord(a) ==
    IF \A i \in 0..7 : a + i \in DOMAIN mem /\ mem[a + i] = <<2, mem[a][2], i>>
    THEN mem[a][2] ELSE -1

\* The bytes read from a up to the first zero byte, at most n of them.
RECURSIVE ReadCStr(_, _)
ReadCStr(a, n) ==
    IF n = 0 \/ a \notin DOMAIN mem THEN <<>> ELSE <<mem[a]>> \o ReadCStr(a + 1, n - 1)

\* Pointer p leads to exactly the NUL-terminated string id of length n.
StringAt(p, id, n) == ReadCStr(p, 24) = Str(id, n)

\* Word k of the table at the final SP, and the value of aux key key.
Word(k) == ReadWord(new_stack + 8 * k)
AuxBase == Len(args) + Len(env) + 4
AuxVal(key) ==
    LET js == {j \in 0..16 : Word(AuxBase + 2 * j) = key}
    IN  IF js = {} THEN -1 ELSE Word(AuxBase + 2 * (CHOOSE j \in js : TRUE) + 1)

\* Spec section 4 step 7 and section 8 scenario 2: once the loader is
\* done, the pointer after argc leads to the ELF path, the argv and envp
\* pointers (reversed) to their own strings, AT_RANDOM to 16 bytes and
\* AT_PLATFORM to "aarch64", each whole and NUL-terminated: no copy_str
\* and no table write has overwritten another string or its terminator.
ArgvEnvpReadBack ==
    pc = "done" =>
      LET n == Len(args)
          e == Len(env)
      IN  /\ StringAt(Word(1), PathId, pathlen)
          /\ \A k \in 1..n : StringAt(Word(1 + k), ArgId(n - k + 1), args[n - k + 1])
          /\ \A k \in 1..e : StringAt(Word(n + 2 + k), EnvId(e - k + 1), env[e - k + 1])
          /\ StringAt(AuxVal(25), RandId, 16)
          /\ StringAt(AuxVal(15), PlatId, 7)

\* Spec section 4 step 7 and section 8 scenario 2: the SP load writes to
\* the stack register is 16-byte aligned, argc is the word at SP, argv and
\* envp end in 0 words, and the aux vector starts with AT_PHDR and ends
\* with AT_NULL, whatever the lengths of the strings above it.
InitialStackAbi ==
    pc = "done" =>
      LET n == Len(args)
          e == Len(env)
      IN  /\ new_stack % 16 = 0
          /\ Word(0) = n + 1
          /\ Word(n + 2) = 0 /\ Word(n + e + 3) = 0
          /\ Word(AuxBase) = 3
          /\ Word(AuxBase + 32) = 0 /\ Word(AuxBase + 33) = 0

\* The file bytes of segment s, loaded at base + address field fld.
Loaded(kind, base, s, fld) ==
    \A i \in 0..(s.f - 1) :
        LET a == base + s[fld] + i
        IN  a \in DOMAIN mem /\ mem[a] = <<kind, 0, s.off + i>>

\* Spec section 4 steps 3 and 6: once the images are loaded, every byte
\* of every PT_LOAD's file image sits at load_address + p_vaddr, and of
\* the linker's at interp_address + p_paddr, for ET_EXEC and ET_DYN
\* files: no segment was written at the wrong place, and no later mapping,
\* segment or stack string overwrote an earlier segment's bytes.
ImageBytesLoaded ==
    pc \in StackSteps =>
      /\ \A k \in DOMAIN image.segs : Loaded(4, load_address, image.segs[k], "v")
      /\ image.interp =>
            \A k \in DOMAIN Linker.segs : Loaded(5, InterpBase, Linker.segs[k], "p")

\* The ELF's program headers are in the lowest PT_LOAD, which maps file
\* offset 0 (the layout every linker produces).
HeadersInFirstLoad ==
    LET s == image.segs[1] IN s.off = 0 /\ image.phoff < s.f

\* Spec section 6: AT_PHDR, which the dynamic linker and libc use to find
\* the program headers, points at the bytes of e_phoff in guest memory,
\* for an ELF loaded at 0 as for one loaded at OS64::load_address.  The
\* aux entry is computed on the stack from mem_start of the first pass;
\* the bytes come from the second pass's writes.
AtPhdrLeadsToHeaders ==
    pc = "done" /\ HeadersInFirstLoad =>
      LET a == AuxVal(3)
      IN  a \in DOMAIN mem /\ mem[a] = <<4, 0, image.phoff>>

\* The PT_LOAD segments are in ascending vaddr order and no two share a
\* page, with vaddr and offset congruent modulo the page: an ELF the
\* Linux loader maps.
WellFormed ==
    LET ls == image.segs
    IN  /\ \A k \in DOMAIN ls : ls[k].f <= ls[k].m /\ ls[k].v % PAGE = ls[k].off % PAGE
        /\ \A k \in 1..(Len(ls) - 1) :
              AlignDown(ls[k].v + ls[k].m - 1) < AlignDown(ls[k + 1].v)

\* Spec section 4 (the loader turns an ELF into a ready-to-run process
\* image, BSS included) and section 7 (only a malformed ELF is fatal): a
\* well-formed ELF is loaded without a panic, and then every byte of every
\* PT_LOAD's memory image [base + vaddr, base + vaddr + memsz) is mapped.
ImageLoaded ==
    WellFormed =>
      /\ pc # "abort"
      /\ pc \in StackSteps =>
            \A k \in DOMAIN image.segs :
               LET s == image.segs[k]
               IN  AreaMapped(regions, load_address + s.v, s.m)
=============================================================================
