------------------------------ MODULE MCLoader ------------------------------
(***************************************************************************)
(* An instance of Loader for TLC: pages of 32 bytes, three of them in an   *)
(* address space of four after the page at 0.                              *)
(***************************************************************************)
EXTENDS Loader

Load(offset, vaddr, filesz, memsz, w) ==
  [p_type |-> "load", p_offset |-> offset, p_vaddr |-> vaddr, p_filesz |-> filesz,
   p_memsz |-> memsz, writable |-> w]

\* Text and data, some that validate_segment refuses (misaligned, beyond the file, shorter
\* than its bytes, empty, past PHYS_BASE, around the end of the address space, at page 0), a
\* page of zeros, one on two pages, one cut off by the end of the file, one in the page of the
\* stack, and headers of other types.
MCHeaders ==
  { Load(32, 32, 20, 20, FALSE), Load(40, 72, 8, 30, TRUE), Load(41, 72, 8, 30, TRUE),
    Load(104, 72, 8, 30, TRUE), Load(40, 72, 8, 7, TRUE), Load(40, 72, 0, 0, TRUE),
    Load(40, 72, 8, 60, TRUE), Load(40, 72, 8, 140, TRUE), Load(40, 8, 8, 8, TRUE),
    Load(0, 64, 0, 10, TRUE), Load(36, 36, 40, 44, TRUE), Load(64, 32, 40, 40, TRUE),
    Load(64, 96, 4, 4, TRUE) }
  \cup { [Load(0, 32, 1, 1, FALSE) EXCEPT !.p_type = t] : t \in {"ignored", "refused", "missing"} }

MCFiles ==
  [length : {100}, valid : {TRUE}, headers : UNION {[1..n -> MCHeaders] : n \in 0..2}]
  \cup {[length |-> 10, valid |-> FALSE, headers |-> <<>>]}

\* One to three tokens; some fill a page of stack to the byte, others are too long for it.
MCCommandLines == {<<3>>, <<4>>, <<11>>, <<1, 1>>, <<2, 1>>, <<1, 3>>, <<1, 1, 1>>, <<30>>}
=============================================================================
