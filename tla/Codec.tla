------------------------------- MODULE Codec -------------------------------
(***************************************************************************)
(* The integer packing helpers of core/mmu.rs: pack_64, pack_32, unpack_64 *)
(* and unpack_32 turn a value into its bytes, and back, in the byte order  *)
(* of the ELF header (Emulator.endian, "LE" or "BE"); pack and unpack are  *)
(* the AArch64 entry points the loader and sys_futex call.  A byte is an   *)
(* integer in 0..255 and a packed value a sequence of them, lowest address *)
(* first.                                                                  *)
(***************************************************************************)
EXTENDS Integers, Sequences, SequencesExt

Endians == {"LE", "BE"}

\* The n bytes of v, least significant first: u64::to_le_bytes for n = 8,
\* u32::to_le_bytes for n = 4 (v is taken modulo 2^(8n)).
RECURSIVE LEBytes(_, _)
LEBytes(v, n) == IF n = 0 THEN <<>> ELSE <<v % 256>> \o LEBytes(v \div 256, n - 1)

\* Emulator::pack_64: to_le_bytes or to_be_bytes by the ELF's endianness.
Pack64(e, v) == IF e = "LE" THEN LEBytes(v, 8) ELSE Reverse(LEBytes(v, 8))

\* Emulator::pack_32.
Pack32(e, v) == IF e = "LE" THEN LEBytes(v, 4) ELSE Reverse(LEBytes(v, 4))

\* Emulator::pack: pack_64 on AArch64, the only machine Emulator::new admits.
Pack(e, v) == Pack64(e, v)

\* The value of bytes given least significant first.
RECURSIVE LEValue(_)
LEValue(bs) == IF bs = <<>> THEN 0 ELSE Head(bs) + 256 * LEValue(Tail(bs))

\* Emulator::unpack_64 and unpack_32: LittleEndian::read_u64/read_u32 or
\* their BigEndian counterparts.
Unpack64(e, bs) == IF e = "LE" THEN LEValue(bs) ELSE LEValue(Reverse(bs))
Unpack32(e, bs) == Unpack64(e, bs)

\* Emulator::unpack on AArch64: 8 bytes go to unpack_64, 4 to unpack_32;
\* any other length panics ("need 4 or 8 byte").
UnpackPanics(bs) == Len(bs) \notin {4, 8}
Unpack(e, bs) == IF Len(bs) = 8 THEN Unpack64(e, bs) ELSE Unpack32(e, bs)

=============================================================================
