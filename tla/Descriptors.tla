----------------------------- MODULE Descriptors -----------------------------
(***************************************************************************)
(* The bytes of the processor's tables: encode_gdt_entry (gdt/gdt.c) with  *)
(* the segments of kernel.c, and idt_set (idt/idt.c).  Addresses have all  *)
(* their 32 bits here, which is why this module is proved about (in        *)
(* TerminalProofs) and not model-checked.                                  *)
(*                                                                         *)
(* x >> n is x \div 2^n and x & (2^n - 1) is x % 2^n.                      *)
(***************************************************************************)
EXTENDS Integers

UINT32 == {x \in Int : 0 <= x /\ x < 4294967296}
UINT16 == {x \in Int : 0 <= x /\ x < 65536}
Byte == 0..255

-----------------------------------------------------------------------------
(***************************************************************************)
(* The segments.                                                           *)
(***************************************************************************)
\* The guard of encode_gdt_entry, which panics otherwise.
Encodable(limit) == limit > 65535 => limit % 4096 = 4095

\* Above 64 KB the limit counts pages of 4 KB (the flag G).
Granular(limit) == limit > 65535
Scaled(limit) == IF Granular(limit) THEN limit \div 4096 ELSE limit

\* gdt_entry[6] is 0x40 or 0xC0, joined with four bits of the limit.
encode_gdt_entry(base, limit, type) ==
    [b0 |-> Scaled(limit) % 256,
     b1 |-> (Scaled(limit) \div 256) % 256,
     b2 |-> base % 256,
     b3 |-> (base \div 256) % 256,
     b4 |-> (base \div 65536) % 256,
     b5 |-> type,
     b6 |-> (IF Granular(limit) THEN 192 ELSE 64) + ((Scaled(limit) \div 65536) % 16),
     b7 |-> (base \div 16777216) % 256]

\* gdt_structured, for the address and the size of struct tss.
gdt_structured(tss, size) ==
    {[base |-> 0, limit |-> 0, type |-> 0],
     [base |-> 0, limit |-> 4294967295, type |-> 154],
     [base |-> 0, limit |-> 4294967295, type |-> 146],
     [base |-> 0, limit |-> 4294967295, type |-> 248],
     [base |-> 0, limit |-> 4294967295, type |-> 242],
     [base |-> tss, limit |-> size, type |-> 233]}

\* How the processor reads a descriptor: the base, and the last offset.
SegmentBase(d) == d.b2 + 256 * d.b3 + 65536 * d.b4 + 16777216 * d.b7
SegmentField(d) == d.b0 + 256 * d.b1 + 65536 * (d.b6 % 16)
SegmentLimit(d) == IF d.b6 >= 128 THEN SegmentField(d) * 4096 + 4095 ELSE SegmentField(d)

-----------------------------------------------------------------------------
\* The gate that idt_set writes: an interrupt gate of the kernel's code segment
\* that user programs may call.
idt_set(address) ==
    [offset_1 |-> address % 65536, selector |-> 8, zero |-> 0, type_attr |-> 238,
     offset_2 |-> address \div 65536]

\* How the processor reads a gate.
GateOffset(g) == g.offset_1 + 65536 * g.offset_2
=============================================================================
