------------------------------- MODULE Loader -------------------------------
(***************************************************************************)
(* Program loading and argument passing of Assignment 6_2 (load and its    *)
(* helpers in userprog/process.c): the segments of an ELF file are brought *)
(* into fresh user pages, then a page of stack gets the arguments.  It     *)
(* runs in one thread; what others do shows in palloc_get_page and in      *)
(* pagedir_set_page, which may fail at any call.  The file is taken to     *)
(* stay as it is (FileTable is about writes to it).                        *)
(*                                                                         *)
(* The bytes of the file are named by their position, the characters of    *)
(* the arguments by argument and place.                                    *)
(***************************************************************************)
EXTENDS Integers, Sequences, FiniteSets

CONSTANTS
  PGSIZE,         \* bytes in a page: 4096 in the code
  UserPages,      \* pages below PHYS_BASE; the last of them is for the stack
  AllPages,       \* pages of the address space: an address is taken modulo AllPages * PGSIZE
  Files,          \* what file_name may be: its length, whether its header is valid, its program headers
  CommandLines    \* the lengths of the tokens of file_name

\* Elf32_Off and Elf32_Addr; a program header, which is "missing" if the file ends before it does.
Unsigned == 0..(AllPages * PGSIZE - 1)
Header ==
  [p_type : {"load", "ignored", "refused", "missing"}, p_offset : Unsigned, p_vaddr : Unsigned,
   p_filesz : Unsigned, p_memsz : Unsigned, writable : BOOLEAN]

\* There is a first token: without one strtok_r gives process_execute a null pointer for
\* the name, and the assertion in init_thread stops the kernel before a load.
ASSUME LoaderAssumption ==
  /\ PGSIZE \in Nat \ {0} /\ PGSIZE % 4 = 0
  /\ UserPages \in Nat \ {0} /\ AllPages \in Nat /\ UserPages < AllPages
  /\ Files \subseteq [length : Nat, valid : BOOLEAN, headers : Seq(Header)]
  /\ CommandLines \subseteq Seq(Nat \ {0}) \ {<<>>}

PHYS_BASE == UserPages * PGSIZE
StackPage == UserPages - 1

VARIABLES
  file,       \* the file, and tokens, the arguments: they never change
  tokens,
  pc,
  i,          \* the program header that is next
  segment,    \* the variables of load_segment: position in the file, page, bytes to read and to zero
  taken,      \* the user pages that palloc_get_page gave and palloc_free_page did not get back
  pagedir,    \* the pages that are mapped: the position and number of the bytes read into each
  handle,     \* of the open file: "none", "open", "denied" (open, no writes) or "closed"
  sp,         \* stack_pointer
  stored,     \* what set_arguments_into_stack has stored, by address: a byte, or a word at its first byte
  num,        \* num_args while the tokens are pushed, num_pushed while their addresses are
  total_length,
  args_pointer

image == <<segment, taken, pagedir>>
stack == <<sp, stored, num, total_length, args_pointer>>
vars == <<file, tokens, pc, i, image, handle, stack>>

NoSegment == [ofs |-> 0, upage |-> 0, read |-> 0, zero |-> 0, writable |-> FALSE]

Init ==
  /\ file \in Files /\ tokens \in CommandLines
  /\ pc = "open" /\ i = 1
  /\ segment = NoSegment /\ taken = 0 /\ pagedir = <<>>
  /\ handle = "none"
  /\ sp = 0 /\ stored = <<>> /\ num = 0 /\ total_length = 0 /\ args_pointer = 0

\* goto done without success: file_close, which accepts NULL.
Fail ==
  /\ pc' = "failed"
  /\ handle' = IF handle = "open" THEN "closed" ELSE handle

-----------------------------------------------------------------------------
(* The headers. *)

\* pagedir_create or filesys_open may fail.
Open ==
  /\ pc = "open"
  /\ \/ Fail
     \/ pc' = "header" /\ handle' = "open"
  /\ UNCHANGED <<file, tokens, i, image, stack>>

ReadHeader ==
  /\ pc = "header"
  /\ IF file.valid THEN pc' = "phdr" /\ UNCHANGED handle ELSE Fail
  /\ UNCHANGED <<file, tokens, i, image, stack>>

\* The next address, in 32 bits.
Wrap(address) == address % (AllPages * PGSIZE)

Validate_segment(h) ==
  /\ h.p_offset % PGSIZE = h.p_vaddr % PGSIZE
  /\ h.p_offset <= file.length
  /\ h.p_memsz >= h.p_filesz /\ h.p_memsz # 0
  /\ h.p_vaddr < PHYS_BASE /\ Wrap(h.p_vaddr + h.p_memsz) < PHYS_BASE
  /\ Wrap(h.p_vaddr + h.p_memsz) >= h.p_vaddr
  /\ h.p_vaddr >= PGSIZE

Round_up(bytes) == ((bytes + PGSIZE - 1) \div PGSIZE) * PGSIZE

\* Mutant: the bytes before the segment in its first page are forgotten.
ReadBytesUnshifted(h) == h.p_filesz

\* The bytes of a segment that are read and those that are zeroed, from the start of its page.
ReadBytes(h) == IF h.p_filesz > 0 THEN (h.p_vaddr % PGSIZE) + h.p_filesz ELSE 0
ZeroBytes(h) == Round_up((h.p_vaddr % PGSIZE) + h.p_memsz) - ReadBytes(h)

\* One round of the loop over the program headers, up to load_segment.
NextHeader ==
  /\ pc = "phdr" /\ i <= Len(file.headers)
  /\ LET h == file.headers[i]
     IN  \/ h.p_type = "ignored" /\ i' = i + 1 /\ UNCHANGED <<pc, segment, handle>>
         \/ h.p_type \in {"missing", "refused"} /\ Fail /\ UNCHANGED <<i, segment>>
         \/ h.p_type = "load" /\ ~Validate_segment(h) /\ Fail /\ UNCHANGED <<i, segment>>
         \/ /\ h.p_type = "load" /\ Validate_segment(h)
            /\ segment' = [ofs |-> (h.p_offset \div PGSIZE) * PGSIZE, upage |-> h.p_vaddr \div PGSIZE,
                           read |-> ReadBytes(h), zero |-> ZeroBytes(h), writable |-> h.writable]
            /\ i' = i + 1 /\ pc' = "segment"
            /\ UNCHANGED handle
  /\ UNCHANGED <<file, tokens, taken, pagedir, stack>>

-----------------------------------------------------------------------------
(* load_segment: a page in each round. *)

PageReadBytes == IF segment.read < PGSIZE THEN segment.read ELSE PGSIZE

\* palloc_get_page, or the end of the loop.
GetPage ==
  /\ pc = "segment"
  /\ \/ segment.read = 0 /\ segment.zero = 0 /\ pc' = "phdr" /\ UNCHANGED <<taken, handle>>
     \/ segment.read + segment.zero > 0 /\ Fail /\ UNCHANGED taken
     \/ segment.read + segment.zero > 0 /\ taken' = taken + 1 /\ pc' = "read" /\ UNCHANGED handle
  /\ UNCHANGED <<file, tokens, i, segment, pagedir, stack>>

\* file_read, which is short if the file ends before.
ReadPage ==
  /\ pc = "read"
  /\ IF PageReadBytes > 0 /\ segment.ofs + PageReadBytes > file.length
       THEN Fail /\ taken' = taken - 1
       ELSE pc' = "install" /\ UNCHANGED <<taken, handle>>
  /\ UNCHANGED <<file, tokens, i, segment, pagedir, stack>>

\* install_page succeeds, and may fail although the page is not mapped yet.
Installs(upage, page) ==
  /\ upage \notin DOMAIN pagedir
  /\ pagedir' = [p \in DOMAIN pagedir \cup {upage} |-> IF p = upage THEN page ELSE pagedir[p]]

\* Mutant: the page is not given back.
FreesKept == UNCHANGED taken

Frees == taken' = taken - 1

InstallPage ==
  /\ pc = "install"
  /\ \/ /\ Installs(segment.upage,
                    [ofs |-> segment.ofs, read |-> PageReadBytes, writable |-> segment.writable])
        /\ segment' = [segment EXCEPT !.ofs = @ + PageReadBytes, !.upage = @ + 1,
                         !.read = @ - PageReadBytes, !.zero = @ - (PGSIZE - PageReadBytes)]
        /\ pc' = "segment"
        /\ UNCHANGED <<taken, handle>>
     \/ Fail /\ Frees /\ UNCHANGED <<segment, pagedir>>
  /\ UNCHANGED <<file, tokens, i, stack>>

-----------------------------------------------------------------------------
(* setup_stack and set_arguments_into_stack. *)

GetStackPage ==
  /\ pc = "phdr" /\ i > Len(file.headers)
  /\ \/ Fail /\ UNCHANGED taken
     \/ taken' = taken + 1 /\ pc' = "stack" /\ UNCHANGED handle
  /\ UNCHANGED <<file, tokens, i, segment, pagedir, stack>>

InstallStack ==
  /\ pc = "stack"
  /\ \/ /\ Installs(StackPage, [ofs |-> 0, read |-> 0, writable |-> TRUE])
        /\ sp' = PHYS_BASE /\ pc' = "token"
        /\ UNCHANGED <<taken, handle>>
     \/ Fail /\ Frees /\ UNCHANGED <<pagedir, sp>>
  /\ UNCHANGED <<file, tokens, i, segment, stored, num, total_length, args_pointer>>

Zero == <<"zero">>
Word(value) == <<"word", value>>

\* The byte or word stored at an address; what is not stored there is as it was loaded.
At(address) ==
  LET page == pagedir[address \div PGSIZE]
  IN  IF address \in DOMAIN stored THEN stored[address]
      ELSE IF address % PGSIZE < page.read THEN <<"file", page.ofs + (address % PGSIZE)>> ELSE Zero

\* size bytes are pushed, among them those of items.  Nothing keeps them within the page of the
\* stack: the kernel faults at a page that is not mapped or not writable, and stops for good.
Push(size, items, label) ==
  LET low == sp - size
  IN  IF \A a \in low..(sp - 1) :
           a \div PGSIZE \in DOMAIN pagedir /\ pagedir[a \div PGSIZE].writable
        THEN /\ sp' = low /\ pc' = label
             /\ stored' = [a \in DOMAIN items \cup DOMAIN stored |->
                             IF a \in DOMAIN items THEN items[a] ELSE stored[a]]
        ELSE pc' = "panic" /\ UNCHANGED <<sp, stored>>

\* A word is pushed.
PushWord(content, label) == Push(4, [a \in {sp - 4} |-> content], label)

\* split_and_insert: the next token with its NUL.
PushToken ==
  /\ pc = "token" /\ num < Len(tokens)
  /\ LET n == tokens[num + 1]
         low == sp - (n + 1)
     IN  /\ Push(n + 1,
                 [a \in low..(low + n) |-> IF a = low + n THEN Zero ELSE <<"char", num + 1, a - low>>],
                 "token")
         /\ total_length' = total_length + n + 1
  /\ num' = num + 1
  /\ UNCHANGED <<file, tokens, i, image, handle, args_pointer>>

\* Mutant: nothing is aligned.
PaddingNone == 0

\* The bytes add_word_align adds.
Padding == (-total_length) % 4

\* add_word_align, once args_pointer is at the last token.
PushAlign ==
  /\ pc = "token" /\ num = Len(tokens)
  /\ args_pointer' = sp
  /\ Push(Padding, [a \in (sp - Padding)..(sp - 1) |-> Zero], "null")
  /\ total_length' = total_length + Padding
  /\ UNCHANGED <<file, tokens, i, image, handle, num>>

\* add_null_char: of the four bytes it pushes it clears the first.
PushNull ==
  /\ pc = "null"
  /\ PushWord(Zero, "address")
  /\ num' = 0
  /\ UNCHANGED <<file, tokens, i, image, handle, total_length, args_pointer>>

\* strlen.
Strlen(address) ==
  CHOOSE n \in 0..(PHYS_BASE - address) :
    At(address + n) = Zero /\ \A k \in 0..(n - 1) : At(address + k) # Zero

\* add_argument_address: the address of a token, from the last token to the first.
PushAddress ==
  /\ pc = "address" /\ num < Len(tokens)
  /\ PushWord(Word(args_pointer), "address")
  /\ num' = num + 1
  /\ args_pointer' = args_pointer + Strlen(args_pointer) + 1
  /\ UNCHANGED <<file, tokens, i, image, handle, total_length>>

\* add_char_pointers, add_number_of_arguments, add_return_address.
PushLast ==
  /\ \/ pc = "address" /\ num = Len(tokens) /\ PushWord(Word(sp), "argc")
     \/ pc = "argc" /\ PushWord(Word(num), "return")
     \/ pc = "return" /\ PushWord(Word(0), "deny")
  /\ UNCHANGED <<file, tokens, i, image, handle, num, total_length, args_pointer>>

\* success: file_deny_write.
Finish ==
  /\ pc = "deny"
  /\ pc' = "loaded" /\ handle' = "denied"
  /\ UNCHANGED <<file, tokens, i, image, stack>>

Next ==
  \/ Open \/ ReadHeader \/ NextHeader \/ GetPage \/ ReadPage \/ InstallPage
  \/ GetStackPage \/ InstallStack
  \/ PushToken \/ PushAlign \/ PushNull \/ PushAddress \/ PushLast \/ Finish

Spec == Init /\ [][Next]_vars

-----------------------------------------------------------------------------
(* Properties. *)

\* Every user page that was taken is mapped, but for the one in hand, wherever load fails:
\* the page directory is all that process_exit has to give them back.
InHand == {"read", "install", "stack"}
PagesMapped == taken = Cardinality(DOMAIN pagedir) + (IF pc \in InHand THEN 1 ELSE 0)

\* The bytes that the first n tokens take, and that all the arguments take on the stack.
Size[n \in 0..Len(tokens)] == IF n = 0 THEN 0 ELSE Size[n - 1] + tokens[n] + 1
Needed == ((Size[Len(tokens)] + 3) \div 4) * 4 + 4 + 4 * Len(tokens) + 12
ArgsFit == Needed <= PGSIZE

\* The stack is within its page.
OnPage == sp >= PHYS_BASE - PGSIZE

\* A loaded program has the bytes of every segment where its header says, zeros after those
\* of the file, and pages that are writable as the header says, if its arguments stay on the
\* page of the stack.
ImageExact ==
  pc = "loaded" /\ OnPage =>
    \A j \in 1..Len(file.headers) :
      LET h == file.headers[j]
      IN  h.p_type = "load" =>
            \A a \in h.p_vaddr..(h.p_vaddr + h.p_memsz - 1) :
              /\ a \div PGSIZE \in DOMAIN pagedir
              /\ pagedir[a \div PGSIZE].writable = h.writable
              /\ At(a) = IF a < h.p_vaddr + h.p_filesz THEN <<"file", h.p_offset + a - h.p_vaddr>>
                                                       ELSE Zero

\* A string of the memory is the token k.
Holds(address, k) ==
  /\ \A n \in 0..(tokens[k] - 1) : At(address + n) = <<"char", k, n>>
  /\ At(address + tokens[k]) = Zero

\* A loaded program starts with what the conventions for main(argc, argv) ask of the stack,
\* and pushing the arguments leaves the page, or stops the kernel, only if they do not fit it.
ArgvExact ==
  /\ pc = "loaded" /\ OnPage =>
       /\ sp % 4 = 0 /\ At(sp) = Word(0)
       /\ At(sp + 4) = Word(Len(tokens))
       /\ LET argv == sp + 12
          IN  /\ At(sp + 8) = Word(argv)
              /\ \A k \in 1..Len(tokens) :
                   \E address \in sp..(PHYS_BASE - 1) :
                     At(argv + 4 * (k - 1)) = Word(address) /\ Holds(address, k)
              /\ \A n \in 0..3 : At(argv + 4 * Len(tokens) + n) = Zero
  /\ pc = "loaded" => (OnPage <=> ArgsFit)
  /\ pc = "panic" => ~ArgsFit
=============================================================================
