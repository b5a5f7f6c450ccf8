------------------------------ MODULE CsecWindow ------------------------------
(***************************************************************************)
(* The CSE_PRAM window as the functions of csec.rs address it: halfword    *)
(* fields in words 1 to 3, and pages 1 .. MAX_PAGES of sixteen bytes.      *)
(* CSEc uses these operators for its accesses; CsecPram shows that the     *)
(* loops over words and bytes underneath do what they say.                 *)
(***************************************************************************)
EXTENDS Integers, Sequences

PAGE_SIZE_IN_BYTES == 16
MAX_PAGES == 7
HALFWORD == 65536

ERROR_BITS_OFFSET == 4
MAC_LENGTH_OFFSET == 8
MAC_MESSAGE_LENGTH_OFFSET == 12
PAGE_LENGTH_OFFSET == 14
FieldOffsets == {ERROR_BITS_OFFSET, MAC_LENGTH_OFFSET,
                 MAC_MESSAGE_LENGTH_OFFSET, PAGE_LENGTH_OFFSET}

PagesOf(bytes) == (bytes + PAGE_SIZE_IN_BYTES - 1) \div PAGE_SIZE_IN_BYTES

\* Mutant: the upper branch shifts a halfword that is already in place.
write_command_halfword_twice_shifted(f, offset, halfword) ==
  [f EXCEPT ![offset] = IF offset % 4 = 2 THEN halfword ELSE HALFWORD * halfword]

\* write_command_halfword shifts by LOWER_HALF_SHIFT in both branches, so a
\* halfword at the upper end of a word is always stored as 0.
write_command_halfword(f, offset, halfword) ==
  [f EXCEPT ![offset] = IF offset % 4 = 2 THEN halfword ELSE 0]

write_command_words(f, offset, word) ==
  write_command_halfword(
    write_command_halfword(f, offset, (word \div HALFWORD) % HALFWORD),
    offset + 2, word % HALFWORD)

\* write_command_bytes of whole pages, from page `first` on.
WritePages(p, first, pages) ==
  [n \in 1 .. MAX_PAGES |->
     IF n \in first .. first + Len(pages) - 1 THEN pages[n - first + 1] ELSE p[n]]
=============================================================================
