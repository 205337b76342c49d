------------------------ MODULE MCVerifyNativeImage ------------------------
(***************************************************************************)
(* 16 bytes of guest memory.  The ELF files hold the payloads of the       *)
(* pinned CORE or of one that starts elsewhere, laid out with page-aligned *)
(* gaps or packed, with data followed by zeroes, by none, or by too many;  *)
(* text loaded or not; the reginfo header longer in memory than in the     *)
(* file; an alignment that is no power of two.                             *)
(***************************************************************************)
EXTENDS VerifyNativeImage

Image(entry, text) ==
  [entry |-> entry, reginfo |-> [address |-> text + 4, size |-> 1],
   text |-> [address |-> text, size |-> 3], data |-> [address |-> 8, size |-> 2]]

MCPinnedCore == Image(2, 2)
MCCores == {MCPinnedCore, Image(4, 2), Image(4, 4)}

LoadHeader(type, offset, address, size, memory, alignment) ==
  [type |-> type, file_offset |-> offset, virtual_address |-> address,
   physical_address |-> address, file_size |-> size, memory_size |-> memory,
   flags |-> 7, alignment |-> alignment]

\* `gap' is the distance of the payloads from congruent offsets.
Elf(image, gap, text_type, reginfo_memory, data_memory, alignment) ==
  LET at == 8 + image.text.address + gap IN
  [ident |-> TRUE, entry |-> image.entry, table |-> 4, three |-> TRUE, size |-> 24,
   headers |->
     <<LoadHeader(text_type, at, image.text.address, 3, 3, alignment),
       LoadHeader("reginfo", 20, image.reginfo.address + 1, 1,
                  reginfo_memory, 1),
       LoadHeader("load", 16 + gap, image.data.address, 2, data_memory, alignment)>>,
   bytes |-> [o \in 0 .. 23 |->
                IF o \in at .. at + 2 THEN {<<"text", o - at>>}
                ELSE IF o \in 16 + gap .. 17 + gap THEN {<<"data", o - 16 - gap>>}
                ELSE IF o = 20 THEN {<<"reginfo", 0>>} ELSE {}]]

MCPinnedReference == Elf(MCPinnedCore, 1, "load", 1, 6, 4)

MCElfs ==
  {MCPinnedReference, Elf(MCPinnedCore, 0, "note", 1, 6, 4), Elf(MCPinnedCore, 0, "load", 1, 6, 3)}
  \cup {Elf(image, 0, "load", r, d, 4) :
          image \in {MCPinnedCore, Image(4, 4)}, r \in {1, 2}, d \in {2, 6}}
=============================================================================
